---- MODULE Spec2Model ----
(***************************************************************************)
(* Model of the retrofit framework's conversion pipeline                   *)
(* (retrofit_framework/core/converter.py, models/warehouse.py).            *)
(*                                                                         *)
(* Numbers.  Python floats are modelled as exact decimals held in          *)
(* integers:                                                               *)
(*   - edge distances and distance-matrix entries are in millimetres       *)
(*     (1.0 m = 1000), so round(x, 2) is rounding to a multiple of 10;     *)
(*   - warehouse and zone geometry is in units of 1/30 m (1.0 m = 30,      *)
(*     0.1 m = 3), which keeps the reference layout's aisle origins        *)
(*     4.5 + 7(i+1)/3 m integral;                                          *)
(*   - scores are in hundredths of a point (4.0 = 400), so round(x, 1)     *)
(*     is rounding to a multiple of 10.                                    *)
(* Edge distances are finite; float('inf') is the value INF.               *)
(***************************************************************************)
EXTENDS Integers, Sequences, FiniteSets, TLC

\* ---------------------------------------------------------------- bounds
MaxNodes == 3
MaxEdges == 2
MaxZones == 3

\* Edge distances offered to the model, in mm: 0.004 m and 1.0 m.  All are
\* even, so no sum of them is a decimal tie of round(x, 2).
Distances == {4, 1000}

\* ------------------------------------------------------ program constants
INF == 1000000000
UNREACHABLE == -1000
MIN_AISLE_WIDTH == 90
OPTIMAL_AISLE_WIDTH == 105

VARIABLES
    warehouse,          \* the LegacyWarehouse handed to the converter
    pc,                 \* "built" | "converted" | "raised"
    robotic,            \* the RoboticWarehouse returned, or NoResult
    conversion_notes,   \* RetrofitConverter.conversion_notes
    earlier,            \* an earlier call's input and result, kept by the caller, or NoResult
    weights,            \* the OptimizationWeights object, or NoResult
    objective,          \* "none" | "constructed": the ObjectiveFunction holding weights
    outcome,            \* what the last operation on them did, or NoResult
    request,            \* the arguments of the last warehouse construction, or NoResult
    exported,           \* the output of the last serialization, or NoResult
    connected,          \* the arguments and the result of connect_nodes, or NoResult
    navigation,         \* the arguments and the result of build_navigation_graph, or NoResult
    config,             \* a SimulationConfig and what validate returned, or NoResult
    battery             \* a BatteryConstraints object and the level it last returned, or NoResult

conv_vars == <<warehouse, pc, robotic, conversion_notes, earlier>>
obj_vars == <<weights, objective, outcome>>
vars == <<warehouse, pc, robotic, conversion_notes, earlier, weights, objective, outcome, request, exported, connected,
          navigation, config, battery>>

NoResult == [none |-> TRUE]

\* No converter has been used; no weights and no objective function exist.
ConverterIdle ==
    /\ warehouse = NoResult
    /\ pc = "idle"
    /\ robotic = NoResult
    /\ conversion_notes = <<>>
    /\ earlier = NoResult

ObjectiveIdle ==
    /\ weights = NoResult
    /\ objective = "none"
    /\ outcome = NoResult

\* The state outside the converter and its caller.
outside_converter == <<obj_vars, request, exported, connected, navigation, config, battery>>
OutsideConverterIdle ==
    /\ ObjectiveIdle
    /\ request = NoResult
    /\ exported = NoResult
    /\ connected = NoResult
    /\ navigation = NoResult
    /\ config = NoResult
    /\ battery = NoResult

\* The state outside the weights and the objective function.
outside_objective == <<conv_vars, request, exported, connected, navigation, config, battery>>

\* ------------------------------------------------------------ data model
ZoneType == {"pickup", "drop", "storage", "charging", "aisle", "crossover"}

\* Edge: from_node, to_node, distance > 0, bidirectional.  The id is the
\* edge's position in the list.  Endpoints are any strings: the model does
\* not require them to name a node.
Edge == [from_node : 1..MaxNodes, to_node : 1..MaxNodes,
         distance : Distances, bidirectional : BOOLEAN]

\* ------------------------------------------------- navigation graph
RECURSIVE add_edges(_, _, _)
\* converter.py 129-132: graph[from].append(to); graph[to].append(from) when
\* bidirectional.  A key that is not a node raises KeyError.
add_edges(graph, edges, i) ==
    IF i > Len(edges) THEN [raised |-> FALSE, graph |-> graph]
    ELSE LET e == edges[i] IN
         IF e.from_node \notin DOMAIN graph
         THEN [raised |-> TRUE, graph |-> graph]
         ELSE LET g1 == [graph EXCEPT ![e.from_node] = Append(@, e.to_node)] IN
              IF ~e.bidirectional THEN add_edges(g1, edges, i + 1)
              ELSE IF e.to_node \notin DOMAIN g1
                   THEN [raised |-> TRUE, graph |-> g1]
                   ELSE add_edges([g1 EXCEPT ![e.to_node] = Append(@, e.from_node)],
                                  edges, i + 1)

Range(s) == {s[i] : i \in DOMAIN s}

_build_navigation_graph(w) ==
    add_edges([id \in Range(w.nodes) |-> <<>>], w.edges, 1)

\* ------------------------------------------------- distance matrix
node_to_idx(nodes, id) ==
    IF id \in Range(nodes) THEN CHOOSE i \in DOMAIN nodes : nodes[i] = id ELSE 0

\* converter.py 156-160
init_dist(n) == [i \in 1..n |-> [j \in 1..n |-> IF i = j THEN 0 ELSE INF]]

\* seed_edge with the bidirectional flag ignored the permissive way: the
\* reverse entry is written for every edge.
seed_edge_both(dist, nodes, e) ==
    LET from_idx == node_to_idx(nodes, e.from_node)
        to_idx == node_to_idx(nodes, e.to_node)
    IN  IF from_idx # 0 /\ to_idx # 0
        THEN [[dist EXCEPT ![from_idx][to_idx] = e.distance]
                    EXCEPT ![to_idx][from_idx] = e.distance]
        ELSE dist

\* seed_edge with the reverse write dropped: every edge is seeded one way.
seed_edge_forward_only(dist, nodes, e) ==
    LET from_idx == node_to_idx(nodes, e.from_node)
        to_idx == node_to_idx(nodes, e.to_node)
    IN  IF from_idx # 0 /\ to_idx # 0
        THEN [dist EXCEPT ![from_idx][to_idx] = e.distance]
        ELSE dist

\* converter.py 164-169: one edge written into the table
seed_edge(dist, nodes, e) ==
    LET from_idx == node_to_idx(nodes, e.from_node)
        to_idx == node_to_idx(nodes, e.to_node)
    IN  IF from_idx # 0 /\ to_idx # 0
        THEN LET d1 == [dist EXCEPT ![from_idx][to_idx] = e.distance] IN
             IF e.bidirectional
             THEN [d1 EXCEPT ![to_idx][from_idx] = e.distance]
             ELSE d1
        ELSE dist

RECURSIVE seed_edges(_, _, _, _)
seed_edges(dist, nodes, edges, i) ==
    IF i > Len(edges) THEN dist
    ELSE seed_edges(seed_edge(dist, nodes, edges[i]), nodes, edges, i + 1)

\* converter.py 175-176
relax(dist, k, i, j) ==
    IF dist[i][k] + dist[k][j] < dist[i][j]
    THEN [dist EXCEPT ![i][j] = dist[i][k] + dist[k][j]]
    ELSE dist

RECURSIVE relax_row(_, _, _, _)
\* converter.py 174-176: for j in range(n), in place; n is the table's size
relax_row(dist, k, i, j) ==
    IF j > Len(dist) THEN dist
    ELSE relax_row(relax(dist, k, i, j), k, i, j + 1)

RECURSIVE relax_pass(_, _, _)
\* converter.py 173: for i in range(n)
relax_pass(dist, k, i) ==
    IF i > Len(dist) THEN dist
    ELSE relax_pass(relax_row(dist, k, i, 1), k, i + 1)

RECURSIVE floyd_warshall_short(_, _)
\* floyd_warshall with the outer loop one pass short: for k in range(n - 1)
floyd_warshall_short(dist, k) ==
    IF k >= Len(dist) THEN dist
    ELSE floyd_warshall_short(relax_pass(dist, k, 1), k + 1)

RECURSIVE floyd_warshall(_, _)
\* converter.py 172: for k in range(n)
floyd_warshall(dist, k) ==
    IF k > Len(dist) THEN dist
    ELSE floyd_warshall(relax_pass(dist, k, 1), k + 1)

\* round(x, 2) of a distance in mm.  Python rounds the float's binary value;
\* a decimal tie (x % 10 = 5) does not occur for the distances of the model
\* and is resolved half-to-even here.
round2(x) ==
    LET q == x \div 10
        r == x % 10
    IN  IF r < 5 THEN 10 * q
        ELSE IF r > 5 THEN 10 * (q + 1)
        ELSE IF q % 2 = 0 THEN 10 * q ELSE 10 * (q + 1)

\* converter.py 183-186
external_distance(d) == IF d = INF THEN UNREACHABLE ELSE round2(d)

\* The table after relaxation, before the conversion to the keyed form.
relaxed_table(w) ==
    LET n == Len(w.nodes)
    IN  floyd_warshall(seed_edges(init_dist(n), w.nodes, w.edges, 1), 1)

_compute_distance_matrix(w) ==
    LET dist == relaxed_table(w)
    IN  [a \in Range(w.nodes) |->
            [b \in Range(w.nodes) |->
                external_distance(dist[node_to_idx(w.nodes, a)][node_to_idx(w.nodes, b)])]]

\* ------------------------------------------------- charging stations
\* _place_charging_stations with the third station kept on the floor:
\* max(0, width - 1.5), max(0, length - 8.0)
_place_charging_stations_clamped(w) ==
    LET s1 == [id |-> <<"charging", 1>>, x |-> 90, y |-> 480,
               zone_type |-> "charging", node_type |-> "charging"]
        s2 == [id |-> <<"charging", 2>>, x |-> 90, y |-> w.length,
               zone_type |-> "charging", node_type |-> "charging"]
        s3 == [id |-> <<"charging", 3>>, x |-> IF 2 * w.width < 90 THEN 0 ELSE 2 * w.width - 90,
               y |-> IF 2 * w.length < 480 THEN 0 ELSE 2 * w.length - 480,
               zone_type |-> "charging", node_type |-> "charging"]
    IN  IF s3.x < 0 \/ s3.y < 0
        THEN [raised |-> TRUE, stations |-> <<s1, s2>>]
        ELSE [raised |-> FALSE, stations |-> <<s1, s2, s3>>]

\* Station coordinates are in units of 1/60 m, so that length / 2 is exact.
\* Node.validate_coordinates (warehouse.py 43-49) rejects a negative x or y.
_place_charging_stations(w) ==
    LET s1 == [id |-> <<"charging", 1>>, x |-> 90, y |-> 480,
               zone_type |-> "charging", node_type |-> "charging"]
        s2 == [id |-> <<"charging", 2>>, x |-> 90, y |-> w.length,
               zone_type |-> "charging", node_type |-> "charging"]
        s3 == [id |-> <<"charging", 3>>, x |-> 2 * w.width - 90, y |-> 2 * w.length - 480,
               zone_type |-> "charging", node_type |-> "charging"]
    IN  IF s3.x < 0 \/ s3.y < 0
        THEN [raised |-> TRUE, stations |-> <<s1, s2>>]
        ELSE [raised |-> FALSE, stations |-> <<s1, s2, s3>>]

\* ------------------------------------------------- traffic rules
\* The id of the i-th entry of a zone or edge list: its id field, or its
\* position where the entries carry none.
id_of(entries, i) ==
    IF "id" \in DOMAIN entries[i] THEN entries[i].id ELSE i

\* Positions of the zones of a type, in zone-list order.
RECURSIVE zones_of_type(_, _, _)
zones_of_type(zones, t, i) ==
    IF i > Len(zones) THEN <<>>
    ELSE IF zones[i].zone_type = t
         THEN <<i>> \o zones_of_type(zones, t, i + 1)
         ELSE zones_of_type(zones, t, i + 1)

\* _generate_traffic_rules as if the drop rule came before the pickup rule
_generate_traffic_rules_drop_first(w) ==
    LET aisle_zones == zones_of_type(w.zones, "aisle", 1)
        pickup == zones_of_type(w.zones, "pickup", 1)
        drop == zones_of_type(w.zones, "drop", 1)
        one_way == [i \in 1..Len(aisle_zones) |->
                      [rule_id |-> <<"one_way_aisle", i>>, rule_type |-> "one_way",
                       applies_to |-> <<id_of(w.zones, aisle_zones[i])>>,
                       description |-> IF (i - 1) % 2 = 0 THEN "north" ELSE "south"]]
        p == IF pickup # <<>>
             THEN <<[rule_id |-> <<"priority_pickup", 0>>, rule_type |-> "priority",
                     applies_to |-> <<id_of(w.zones, pickup[1])>>, description |-> "pickup"]>>
             ELSE <<>>
        d == IF drop # <<>>
             THEN <<[rule_id |-> <<"priority_drop", 0>>, rule_type |-> "priority",
                     applies_to |-> <<id_of(w.zones, drop[1])>>, description |-> "drop"]>>
             ELSE <<>>
    IN  one_way \o d \o p

_generate_traffic_rules(w) ==
    LET aisle_zones == zones_of_type(w.zones, "aisle", 1)
        pickup == zones_of_type(w.zones, "pickup", 1)
        drop == zones_of_type(w.zones, "drop", 1)
        one_way == [i \in 1..Len(aisle_zones) |->
                      [rule_id |-> <<"one_way_aisle", i>>, rule_type |-> "one_way",
                       applies_to |-> <<id_of(w.zones, aisle_zones[i])>>,
                       description |-> IF (i - 1) % 2 = 0 THEN "north" ELSE "south"]]
        p == IF pickup # <<>>
             THEN <<[rule_id |-> <<"priority_pickup", 0>>, rule_type |-> "priority",
                     applies_to |-> <<id_of(w.zones, pickup[1])>>, description |-> "pickup"]>>
             ELSE <<>>
        d == IF drop # <<>>
             THEN <<[rule_id |-> <<"priority_drop", 0>>, rule_type |-> "priority",
                     applies_to |-> <<id_of(w.zones, drop[1])>>, description |-> "drop"]>>
             ELSE <<>>
    IN  one_way \o p \o d

\* ------------------------------------------------- feasibility factors
\* factor as if the branches with status "acceptable" appended their issue
\* but no action
factor_no_action(name, score, max, status, tags) ==
    [name |-> name, score |-> score, max_score |-> max, status |-> status,
     issues |-> tags, actions |-> IF status = "acceptable" THEN <<>> ELSE tags]

\* Each factor yields its score (hundredths), its status and the issue and
\* action it appends (named by a tag; the texts depend on the warehouse only).
factor(name, score, max, status, tags) ==
    [name |-> name, score |-> score, max_score |-> max, status |-> status,
     issues |-> tags, actions |-> tags]

\* aisle_width_factor with the optimal threshold exclusive: > 3.5 m
aisle_width_factor_strict(w) ==
    IF w.aisle_width > OPTIMAL_AISLE_WIDTH
    THEN factor("Aisle Width", 400, 400, "optimal", <<>>)
    ELSE IF w.aisle_width >= MIN_AISLE_WIDTH
    THEN factor("Aisle Width", 300, 400, "acceptable", <<"aisle_below_optimal">>)
    ELSE IF w.aisle_width >= 75
    THEN factor("Aisle Width", 200, 400, "marginal", <<"aisle_below_minimum">>)
    ELSE IF w.aisle_width >= 60
    THEN factor("Aisle Width", 100, 400, "poor", <<"aisle_critically_narrow">>)
    ELSE factor("Aisle Width", 0, 400, "inadequate", <<"aisle_cannot_fit">>)

\* aisle_width_factor with the scores of the two lowest steps exchanged
aisle_width_factor_swapped(w) ==
    IF w.aisle_width >= OPTIMAL_AISLE_WIDTH
    THEN factor("Aisle Width", 400, 400, "optimal", <<>>)
    ELSE IF w.aisle_width >= MIN_AISLE_WIDTH
    THEN factor("Aisle Width", 300, 400, "acceptable", <<"aisle_below_optimal">>)
    ELSE IF w.aisle_width >= 75
    THEN factor("Aisle Width", 100, 400, "marginal", <<"aisle_below_minimum">>)
    ELSE IF w.aisle_width >= 60
    THEN factor("Aisle Width", 200, 400, "poor", <<"aisle_critically_narrow">>)
    ELSE factor("Aisle Width", 0, 400, "inadequate", <<"aisle_cannot_fit">>)

\* converter.py 335-410
aisle_width_factor(w) ==
    IF w.aisle_width >= OPTIMAL_AISLE_WIDTH
    THEN factor("Aisle Width", 400, 400, "optimal", <<>>)
    ELSE IF w.aisle_width >= MIN_AISLE_WIDTH
    THEN factor("Aisle Width", 300, 400, "acceptable", <<"aisle_below_optimal">>)
    ELSE IF w.aisle_width >= 75
    THEN factor("Aisle Width", 200, 400, "marginal", <<"aisle_below_minimum">>)
    ELSE IF w.aisle_width >= 60
    THEN factor("Aisle Width", 100, 400, "poor", <<"aisle_critically_narrow">>)
    ELSE factor("Aisle Width", 0, 400, "inadequate", <<"aisle_cannot_fit">>)

RECURSIVE insert_sorted(_, _)
insert_sorted(s, v) ==
    IF s = <<>> THEN <<v>>
    ELSE IF v < Head(s) THEN <<v>> \o s
    ELSE <<Head(s)>> \o insert_sorted(Tail(s), v)

RECURSIVE sorted(_)
sorted(s) == IF s = <<>> THEN <<>> ELSE insert_sorted(sorted(Tail(s)), Head(s))

\* layout_regularity_factor with the branches taken on warehouse.aisles
\* instead of the number of aisle zones
layout_regularity_factor_by_count(w) ==
    LET aisle_zones == zones_of_type(w.zones, "aisle", 1)
        widths == {w.zones[aisle_zones[i]].width : i \in DOMAIN aisle_zones}
        x_positions == sorted([i \in DOMAIN aisle_zones |-> w.zones[aisle_zones[i]].x])
        spacings == {x_positions[i + 1] - x_positions[i] : i \in 1..(Len(x_positions) - 1)}
        width_consistent == Cardinality(widths) = 1
        spacing_consistent ==
            \/ spacings = {}
            \/ \A a \in spacings : \A b \in spacings : a - b < 30
    IN  IF w.aisles >= 2
        THEN IF width_consistent /\ spacing_consistent
             THEN factor("Layout Regularity", 250, 250, "optimal", <<>>)
             ELSE IF width_consistent \/ spacing_consistent
             THEN factor("Layout Regularity", 150, 250, "acceptable", <<"partially_regular">>)
             ELSE factor("Layout Regularity", 50, 250, "poor", <<"irregular">>)
        ELSE IF w.aisles = 1
        THEN factor("Layout Regularity", 100, 250, "marginal", <<"single_aisle">>)
        ELSE factor("Layout Regularity", 0, 250, "inadequate", <<"no_aisles">>)

\* converter.py 414-465
layout_regularity_factor(w) ==
    LET aisle_zones == zones_of_type(w.zones, "aisle", 1)
        widths == {w.zones[aisle_zones[i]].width : i \in DOMAIN aisle_zones}
        x_positions == sorted([i \in DOMAIN aisle_zones |-> w.zones[aisle_zones[i]].x])
        spacings == {x_positions[i + 1] - x_positions[i] : i \in 1..(Len(x_positions) - 1)}
        width_consistent == Cardinality(widths) = 1
        spacing_consistent ==
            \/ spacings = {}
            \/ \A a \in spacings : \A b \in spacings : a - b < 30
    IN  IF Len(aisle_zones) >= 2
        THEN IF width_consistent /\ spacing_consistent
             THEN factor("Layout Regularity", 250, 250, "optimal", <<>>)
             ELSE IF width_consistent \/ spacing_consistent
             THEN factor("Layout Regularity", 150, 250, "acceptable", <<"partially_regular">>)
             ELSE factor("Layout Regularity", 50, 250, "poor", <<"irregular">>)
        ELSE IF Len(aisle_zones) = 1
        THEN factor("Layout Regularity", 100, 250, "marginal", <<"single_aisle">>)
        ELSE factor("Layout Regularity", 0, 250, "inadequate", <<"no_aisles">>)

\* converter.py 468-470: utilization as the exact fraction num / den
utilization(w) ==
    LET total_area == w.width * w.length
        aisle_area == w.aisles * w.aisle_width * w.aisle_length
    IN  IF total_area > 0 THEN [num |-> aisle_area, den |-> total_area]
        ELSE [num |-> 0, den |-> 1]

\* space_utilization_factor with the upper edge of the acceptable band
\* exclusive: utilization < 0.6
space_utilization_factor_open(w) ==
    LET u == utilization(w)
        ge(t) == 10 * u.num >= t * u.den
        le(t) == 10 * u.num <= t * u.den
        gt(t) == 10 * u.num > t * u.den
        lt(t) == 10 * u.num < t * u.den
    IN  IF ge(3) /\ le(5)
        THEN factor("Space Utilization", 200, 200, "optimal", <<>>)
        ELSE IF (ge(2) /\ lt(3)) \/ (gt(5) /\ lt(6))
        THEN factor("Space Utilization", 150, 200, "acceptable",
                    IF gt(5) THEN <<"utilization_high">> ELSE <<"utilization_low">>)
        ELSE factor("Space Utilization", 100, 200, IF ge(6) THEN "poor" ELSE "marginal",
                    IF ge(6) THEN <<"utilization_critical">> ELSE <<"utilization_very_low">>)

\* converter.py 472-518; u >= 0.3 is 10 * num >= 3 * den, and so on
space_utilization_factor(w) ==
    LET u == utilization(w)
        ge(t) == 10 * u.num >= t * u.den
        le(t) == 10 * u.num <= t * u.den
        gt(t) == 10 * u.num > t * u.den
        lt(t) == 10 * u.num < t * u.den
    IN  IF ge(3) /\ le(5)
        THEN factor("Space Utilization", 200, 200, "optimal", <<>>)
        ELSE IF (ge(2) /\ lt(3)) \/ (gt(5) /\ le(6))
        THEN factor("Space Utilization", 150, 200, "acceptable",
                    IF gt(5) THEN <<"utilization_high">> ELSE <<"utilization_low">>)
        ELSE factor("Space Utilization", 100, 200, IF gt(6) THEN "poor" ELSE "marginal",
                    IF gt(6) THEN <<"utilization_critical">> ELSE <<"utilization_very_low">>)

\* accessibility_factor with the tests in the wrong order: "pickup or drop"
\* is tried first, so a warehouse that has both zones scores 1.0
accessibility_factor_either_first(w) ==
    LET pickup_zone == zones_of_type(w.zones, "pickup", 1) # <<>>
        drop_zone == zones_of_type(w.zones, "drop", 1) # <<>>
    IN  IF pickup_zone \/ drop_zone
        THEN factor("Accessibility", 100, 150, "marginal",
                    IF pickup_zone THEN <<"missing_drop">> ELSE <<"missing_pickup">>)
        ELSE IF pickup_zone /\ drop_zone
        THEN factor("Accessibility", 150, 150, "optimal", <<>>)
        ELSE factor("Accessibility", 0, 150, "inadequate", <<"no_endpoints">>)

\* converter.py 521-550
accessibility_factor(w) ==
    LET pickup_zone == zones_of_type(w.zones, "pickup", 1) # <<>>
        drop_zone == zones_of_type(w.zones, "drop", 1) # <<>>
    IN  IF pickup_zone /\ drop_zone
        THEN factor("Accessibility", 150, 150, "optimal", <<>>)
        ELSE IF pickup_zone \/ drop_zone
        THEN factor("Accessibility", 100, 150, "marginal",
                    IF pickup_zone THEN <<"missing_drop">> ELSE <<"missing_pickup">>)
        ELSE factor("Accessibility", 0, 150, "inadequate", <<"no_endpoints">>)

\* ------------------------------------------------- final score and grade
\* round1 as round(x): to whole points (half-to-even on a tie)
round1_whole(x) ==
    LET q == x \div 100
        r == x % 100
    IN  IF r < 50 THEN 100 * q
        ELSE IF r > 50 THEN 100 * (q + 1)
        ELSE IF q % 2 = 0 THEN 100 * q ELSE 100 * (q + 1)

\* round(x, 1) of a score in hundredths (half-to-even on a decimal tie).
round1(x) ==
    LET q == x \div 10
        r == x % 10
    IN  IF r < 5 THEN 10 * q
        ELSE IF r > 5 THEN 10 * (q + 1)
        ELSE IF q % 2 = 0 THEN 10 * q ELSE 10 * (q + 1)

\* grade_of with the lower edge of band C exclusive: > 5.0
grade_of_strict(final_score) ==
    IF final_score >= 900 THEN "A"
    ELSE IF final_score >= 700 THEN "B"
    ELSE IF final_score > 500 THEN "C"
    ELSE IF final_score >= 300 THEN "D"
    ELSE "F"

\* converter.py 556-570
grade_of(final_score) ==
    IF final_score >= 900 THEN "A"
    ELSE IF final_score >= 700 THEN "B"
    ELSE IF final_score >= 500 THEN "C"
    ELSE IF final_score >= 300 THEN "D"
    ELSE "F"

\* converter.py 572
is_feasible_of(final_score) == final_score >= 500

\* _calculate_feasibility_score with the factor list kept on the converter
\* and not cleared: the factors of the previous assessment precede the four
\* of this call.
_calculate_feasibility_score_kept(w) ==
    LET f1 == aisle_width_factor(w)
        f2 == layout_regularity_factor(w)
        f3 == space_utilization_factor(w)
        f4 == accessibility_factor(w)
        score == f1.score + f2.score + f3.score + f4.score
        final_score == round1(score)
        issues == f1.issues \o f2.issues \o f3.issues \o f4.issues
        actions == f1.actions \o f2.actions \o f3.actions \o f4.actions
        strip(f) == [name |-> f.name, score |-> f.score, max_score |-> f.max_score,
                     status |-> f.status]
        kept == IF robotic = NoResult THEN <<>> ELSE robotic.feasibility_assessment.factors
    IN  [assessment |->
            [score |-> final_score,
             grade |-> grade_of(final_score),
             is_feasible |-> is_feasible_of(final_score),
             factors |-> kept \o <<strip(f1), strip(f2), strip(f3), strip(f4)>>,
             issues |-> IF issues = <<>> THEN <<"no_issues">> ELSE issues,
             actions |-> IF actions = <<>> THEN <<"no_actions">> ELSE actions],
         notes |-> << <<"aisle_width_score", f1.score>>,
                      <<"layout_regularity_score", f2.score>>,
                      <<"space_utilization_score", f3.score>>,
                      <<"accessibility_score", f4.score>>,
                      <<"final_score", final_score>> >>]

\* converter.py 306-588.  The result carries the notes the call appends to
\* self.conversion_notes (lines 410, 465, 518, 550, 554).
_calculate_feasibility_score(w) ==
    LET f1 == aisle_width_factor(w)
        f2 == layout_regularity_factor(w)
        f3 == space_utilization_factor(w)
        f4 == accessibility_factor(w)
        score == f1.score + f2.score + f3.score + f4.score
        final_score == round1(score)
        issues == f1.issues \o f2.issues \o f3.issues \o f4.issues
        actions == f1.actions \o f2.actions \o f3.actions \o f4.actions
        strip(f) == [name |-> f.name, score |-> f.score, max_score |-> f.max_score,
                     status |-> f.status]
    IN  [assessment |->
            [score |-> final_score,
             grade |-> grade_of(final_score),
             is_feasible |-> is_feasible_of(final_score),
             factors |-> <<strip(f1), strip(f2), strip(f3), strip(f4)>>,
             issues |-> IF issues = <<>> THEN <<"no_issues">> ELSE issues,
             actions |-> IF actions = <<>> THEN <<"no_actions">> ELSE actions],
         notes |-> << <<"aisle_width_score", f1.score>>,
                      <<"layout_regularity_score", f2.score>>,
                      <<"space_utilization_score", f3.score>>,
                      <<"accessibility_score", f4.score>>,
                      <<"final_score", final_score>> >>]

\* converter.py 94-110
_validate_warehouse(w) ==
    IF w.aisle_width < MIN_AISLE_WIDTH THEN <<"aisle_below_minimum", w.aisle_width>>
    ELSE IF w.aisle_width < OPTIMAL_AISLE_WIDTH THEN <<"aisle_below_optimal", w.aisle_width>>
    ELSE <<"aisle_optimal", w.aisle_width>>

\* ------------------------------------------------- construction
\* warehouse.py 101-126: the three field validators of LegacyWarehouse, which
\* RoboticWarehouse inherits.  Each is TRUE when it raises ValueError.
ids_of(entries) == {id_of(entries, i) : i \in DOMAIN entries}

validate_unique_zone_ids(v) == Len(v) # Cardinality(ids_of(v))

validate_unique_node_ids(v) == Len(v) # Cardinality(Range(v))

\* validate_unique_edge_ids as if it accepted every edge list
validate_unique_edge_ids_off(v) == FALSE

validate_unique_edge_ids(v) == Len(v) # Cardinality(ids_of(v))

\* Construction of a LegacyWarehouse or a RoboticWarehouse fails when a
\* validator raises.
ValidationError(zones, nodes, edges) ==
    \/ validate_unique_zone_ids(zones)
    \/ validate_unique_node_ids(nodes)
    \/ validate_unique_edge_ids(edges)

\* line 52 as if it were missing: the run appends to the list of the run
\* before it
reset_conversion_notes_in_place == [notes |-> conversion_notes, fresh |-> FALSE]

\* self.conversion_notes = [] (converter.py 52): the converter's attribute is
\* bound to a new, empty list; fresh: it is not the list object of the run
\* before.
reset_conversion_notes == [notes |-> <<>>, fresh |-> TRUE]

\* ------------------------------------------------- the conversion
\* convert_legacy_warehouse with the traffic rules generated before the
\* charging stations are placed
convert_legacy_warehouse_rules_first(w) ==
    LET n1 == Append(reset_conversion_notes.notes, _validate_warehouse(w))
        g == _build_navigation_graph(w)
        n2 == Append(n1, <<"graph_built", Len(w.nodes)>>)
        dm == _compute_distance_matrix(w)
        n3 == Append(n2, <<"distance_matrix", Len(w.nodes)>>)
        tr == _generate_traffic_rules(w)
        n4 == Append(n3, <<"traffic_rules", Len(tr)>>)
        cs == _place_charging_stations(w)
        n5 == Append(n4, <<"charging_stations", Len(cs.stations)>>)
        fa == _calculate_feasibility_score(w)
        n6 == n5 \o fa.notes
    IN  IF g.raised THEN [raised |-> TRUE, notes |-> n1, robotic |-> NoResult]
        ELSE IF cs.raised THEN [raised |-> TRUE, notes |-> n4, robotic |-> NoResult]
        ELSE IF ValidationError(w.zones, w.nodes, w.edges)
             THEN [raised |-> TRUE, notes |-> n6, robotic |-> NoResult]
        ELSE [raised |-> FALSE, notes |-> n6,
              robotic |-> [zones |-> w.zones, nodes |-> w.nodes, edges |-> w.edges,
                           navigation_graph |-> g.graph,
                           distance_matrix |-> dm,
                           charging_stations |-> cs.stations,
                           traffic_rules |-> tr,
                           feasibility_score |-> fa.assessment.score,
                           feasibility_assessment |-> fa.assessment,
                           conversion_notes |-> n6]]

\* converter.py 42-92.  raised: an exception left the call (KeyError from the
\* graph construction, ValidationError from a charging-station Node); notes
\* is self.conversion_notes as the call leaves it.
convert_legacy_warehouse(w) ==
    LET n1 == Append(reset_conversion_notes.notes, _validate_warehouse(w))
        g == _build_navigation_graph(w)
        n2 == Append(n1, <<"graph_built", Len(w.nodes)>>)
        dm == _compute_distance_matrix(w)
        n3 == Append(n2, <<"distance_matrix", Len(w.nodes)>>)
        cs == _place_charging_stations(w)
        n4 == Append(n3, <<"charging_stations", Len(cs.stations)>>)
        tr == _generate_traffic_rules(w)
        n5 == Append(n4, <<"traffic_rules", Len(tr)>>)
        fa == _calculate_feasibility_score(w)
        n6 == n5 \o fa.notes
    IN  IF g.raised THEN [raised |-> TRUE, notes |-> n1, robotic |-> NoResult]
        ELSE IF cs.raised THEN [raised |-> TRUE, notes |-> n3, robotic |-> NoResult]
        ELSE IF ValidationError(w.zones, w.nodes, w.edges)
             THEN [raised |-> TRUE, notes |-> n6, robotic |-> NoResult]
        ELSE [raised |-> FALSE, notes |-> n6,
              robotic |-> [zones |-> w.zones, nodes |-> w.nodes, edges |-> w.edges,
                           navigation_graph |-> g.graph,
                           distance_matrix |-> dm,
                           charging_stations |-> cs.stations,
                           traffic_rules |-> tr,
                           feasibility_score |-> fa.assessment.score,
                           feasibility_assessment |-> fa.assessment,
                           conversion_notes |-> n6]]

\* ------------------------------------------------- inputs
SeqsUpTo(S, n) == UNION {[1..k -> S] : k \in 0..n}

\* Aisle widths from 1.9 m to 4.0 m, on and just below each threshold, and 6.0 m.
AisleWidths == {57, 60, 72, 75, 87, 90, 102, 105, 120, 180}
\* Aisle lengths 24 m and 50 m: with 5 aisles on a 20 m x 60 m floor the
\* utilization runs from 0.19 to 1.25 and meets 0.2, 0.3, 0.5 and 0.6 exactly.
AisleLengths == {720, 1500}
\* Aisle-zone origins 0 m, 2 m, 4.97 m, 5 m and widths 3.0 m, 3.5 m.
ZoneXs == {0, 60, 149, 150}
ZoneWidths == {90, 105}

Zone ==
    [zone_type : {"aisle"}, x : ZoneXs, y : {150}, width : ZoneWidths, height : {1500}]
    \cup {[zone_type |-> "pickup", x |-> 0, y |-> 0, width |-> 150, height |-> 150],
          [zone_type |-> "drop", x |-> 450, y |-> 1650, width |-> 150, height |-> 150]}

\* Zone lists with none, one and four zones: the last has both endpoints and
\* two aisle zones of one width, the layout every factor can find optimal.
SeqZoneLists ==
    LET pickup == [zone_type |-> "pickup", x |-> 0, y |-> 0, width |-> 150, height |-> 150]
        drop == [zone_type |-> "drop", x |-> 450, y |-> 1650, width |-> 150, height |-> 150]
        aisle(x) == [zone_type |-> "aisle", x |-> x, y |-> 150, width |-> 90, height |-> 1500]
    IN  {<<>>, <<pickup>>, <<pickup, drop, aisle(60), aisle(150)>>}

\* A LegacyWarehouse (warehouse.py 88-99).  Node ids are 1..n in list order;
\* zone and edge ids are list positions.
LegacyWarehouse(aisle_width, aisle_length, zones, nodes, edges) ==
    [width |-> 600, length |-> 1800, aisles |-> 5,
     aisle_width |-> aisle_width, aisle_length |-> aisle_length,
     zones |-> zones, nodes |-> nodes, edges |-> edges]

\* Warehouses that vary in their graph: n nodes (MaxNodes, or one fewer so
\* that the id MaxNodes dangles) and edges between any ids of 1..MaxNodes.
GraphWarehouse(n, edges) ==
    LegacyWarehouse(90, 1500, <<>>, [i \in 1..n |-> i], edges)

\* Warehouses that vary in their geometry and zones.
GeomWarehouse(aw, al, zones) ==
    LegacyWarehouse(aw, al, zones, <<>>, <<>>)

\* Floor widths 0.1 m, 1.4 m, 1.5 m, 20 m and lengths 1 m, 7.9 m, 8.0 m, 60 m:
\* all positive, on both sides of the third charging station's offsets.
FloorWidths == {3, 42, 45, 600}
FloorLengths == {30, 237, 240, 1800}

\* Warehouses that vary in their floor.
FloorWarehouse(width, length, zones) ==
    [LegacyWarehouse(90, 1500, zones, <<>>, <<>>) EXCEPT !.width = width, !.length = length]

\* ------------------------------------------------- Layout A
\* layout_a.py 46-312.  Lengths are in 1/30 m, so that aisle_spacing =
\* (20 - 6) / 6 m is the integer 70; node ids are numbered in list order:
\* node_pickup, node_drop, then entry, mid, exit of aisle 1, of aisle 2, ...
node_pickup == 1
node_drop == 2
node_aisle_entry(i) == 3 * i
node_aisle_mid(i) == 3 * i + 1
node_aisle_exit(i) == 3 * i + 2

\* layout_a.py 97
aisle_spacing == (600 - 180) \div (5 + 1)

\* round(math.sqrt(sq), 2) in mm, for sq in (1/30 m)^2: the r hundredths with
\* r - 0.5 <= (100 / 30) * sqrt(sq) < r + 0.5
sqrt_round2(sq) ==
    10 * (CHOOSE r \in 0..1000 :
            /\ 9 * (2 * r - 1) * (2 * r - 1) <= 400 * sq
            /\ 400 * sq < 9 * (2 * r + 1) * (2 * r + 1))

\* round(x, 2) in mm of a length x in 1/30 m
length_round2(x) == round2((1000 * x) \div 30)

layout_a_zones ==
    <<[zone_type |-> "pickup", x |-> 0, y |-> 0, width |-> 150, height |-> 150],
      [zone_type |-> "drop", x |-> 450, y |-> 1650, width |-> 150, height |-> 150]>>
    \o [i \in 1..5 |->
          [zone_type |-> "aisle", x |-> 180 + i * aisle_spacing - 90 \div 2, y |-> 150,
           width |-> 90, height |-> 1500]]

\* layout_a_edges as if no crossover edge joined adjacent aisles
layout_a_edges_no_crossover ==
    LET first_aisle_x == 180 + aisle_spacing
        last_aisle_x == 180 + 5 * aisle_spacing
        edge(a, b, d) == [from_node |-> a, to_node |-> b, distance |-> d,
                          bidirectional |-> TRUE]
        within == [x \in 1..10 |->
                     LET i == (x + 1) \div 2
                     IN  IF x % 2 = 1
                         THEN edge(node_aisle_entry(i), node_aisle_mid(i), length_round2(1500 \div 2))
                         ELSE edge(node_aisle_mid(i), node_aisle_exit(i), length_round2(1500 \div 2))]
        entry == [i \in 1..4 |-> edge(node_aisle_entry(i), node_aisle_entry(i + 1),
                                      length_round2(aisle_spacing))]
        mid == [i \in 1..4 |-> edge(node_aisle_mid(i), node_aisle_mid(i + 1),
                                    length_round2(aisle_spacing))]
        exit == [i \in 1..4 |-> edge(node_aisle_exit(i), node_aisle_exit(i + 1),
                                     length_round2(aisle_spacing))]
    IN  <<edge(node_pickup, node_aisle_entry(1),
               sqrt_round2((first_aisle_x - 75) * (first_aisle_x - 75)
                           + (150 - 75) * (150 - 75))),
          edge(node_aisle_exit(5), node_drop,
               sqrt_round2((525 - last_aisle_x) * (525 - last_aisle_x)
                           + (1725 - 1650) * (1725 - 1650)))>>
        \o within

layout_a_edges ==
    LET first_aisle_x == 180 + aisle_spacing
        last_aisle_x == 180 + 5 * aisle_spacing
        edge(a, b, d) == [from_node |-> a, to_node |-> b, distance |-> d,
                          bidirectional |-> TRUE]
        within == [x \in 1..10 |->
                     LET i == (x + 1) \div 2
                     IN  IF x % 2 = 1
                         THEN edge(node_aisle_entry(i), node_aisle_mid(i), length_round2(1500 \div 2))
                         ELSE edge(node_aisle_mid(i), node_aisle_exit(i), length_round2(1500 \div 2))]
        entry == [i \in 1..4 |-> edge(node_aisle_entry(i), node_aisle_entry(i + 1),
                                      length_round2(aisle_spacing))]
        mid == [i \in 1..4 |-> edge(node_aisle_mid(i), node_aisle_mid(i + 1),
                                    length_round2(aisle_spacing))]
        exit == [i \in 1..4 |-> edge(node_aisle_exit(i), node_aisle_exit(i + 1),
                                     length_round2(aisle_spacing))]
    IN  <<edge(node_pickup, node_aisle_entry(1),
               sqrt_round2((first_aisle_x - 75) * (first_aisle_x - 75)
                           + (150 - 75) * (150 - 75))),
          edge(node_aisle_exit(5), node_drop,
               sqrt_round2((525 - last_aisle_x) * (525 - last_aisle_x)
                           + (1725 - 1650) * (1725 - 1650)))>>
        \o within \o entry \o mid \o exit

create_layout_a_warehouse ==
    LegacyWarehouse(90, 1500, layout_a_zones, [i \in 1..17 |-> i], layout_a_edges)

\* ------------------------------------------------- actions
\* converter.convert_legacy_warehouse(w) on the one converter.
Convert(w) ==
    \E r \in {convert_legacy_warehouse(w)} :
        /\ warehouse' = w
        /\ conversion_notes' = r.notes
        /\ robotic' = r.robotic
        /\ pc' = IF r.raised THEN "raised" ELSE "converted"

\* The caller converts the warehouse it has built.
ConvertBuilt ==
    /\ pc = "built"
    /\ Convert(warehouse)
    /\ UNCHANGED earlier
    /\ UNCHANGED outside_converter

Init ==
    /\ \/ \E n \in (MaxNodes - 1)..MaxNodes, edges \in SeqsUpTo(Edge, MaxEdges) :
              warehouse = GraphWarehouse(n, edges)
       \/ \E aw \in AisleWidths, al \in AisleLengths, zones \in SeqsUpTo(Zone, MaxZones) :
              warehouse = GeomWarehouse(aw, al, zones)
       \/ \E aw \in AisleWidths, al \in AisleLengths, zones \in SeqZoneLists :
              warehouse = GeomWarehouse(aw, al, zones)
       \/ \E width \in FloorWidths, length \in FloorLengths, zones \in SeqZoneLists :
              warehouse = FloorWarehouse(width, length, zones)
       \/ warehouse = create_layout_a_warehouse
    /\ pc = "built"
    /\ robotic = NoResult
    /\ conversion_notes = <<>>
    /\ earlier = NoResult
    /\ OutsideConverterIdle

Next == ConvertBuilt

Spec == Init /\ [][Next]_vars

\* ------------------------------------------------- repeated conversions
\* The caller builds another warehouse and converts it on the same converter.
\* The kept result was given the converter's note list (converter.py 89);
\* copied: the RoboticWarehouse constructor stored a copy of it.  A kept
\* result that holds the list itself sees what a later run appends to that
\* same list object.
\* earlier.other_since records that a different warehouse was converted after
\* the kept call.
ConvertNext ==
    \E aw \in AisleWidths, al \in AisleLengths, zones \in SeqZoneLists :
        LET w == GeomWarehouse(aw, al, zones)
        IN  /\ pc # "built"
            /\ Convert(w)
            /\ \E copied \in BOOLEAN :
                  earlier' = IF earlier = NoResult THEN earlier
                             ELSE [earlier EXCEPT
                                     !.other_since = @ \/ w # earlier.warehouse,
                                     !.robotic.conversion_notes =
                                         IF ~reset_conversion_notes.fresh /\ ~copied
                                         THEN conversion_notes' ELSE @]
            /\ UNCHANGED outside_converter

\* The caller keeps the input and the result of the call just made.
Keep ==
    /\ pc = "converted"
    /\ earlier' = [warehouse |-> warehouse, robotic |-> robotic, other_since |-> FALSE]
    /\ UNCHANGED <<warehouse, pc, robotic, conversion_notes>>
    /\ UNCHANGED outside_converter

InitSeq ==
    /\ ConverterIdle
    /\ OutsideConverterIdle

NextSeq == ConvertNext \/ Keep

SpecSeq == InitSeq /\ [][NextSeq]_vars

\* ------------------------------------------------- building a warehouse
\* The caller constructs a LegacyWarehouse from lists whose entries carry
\* their ids, and converts it if the construction succeeded.
RequestIds == {1, 2}

RequestZone ==
    [id : RequestIds, zone_type : {"aisle"}, x : {60}, y : {150}, width : {90}, height : {1500}]

RequestEdge ==
    [id : RequestIds, from_node : RequestIds, to_node : RequestIds,
     distance : {1000}, bidirectional : BOOLEAN]

NewLegacyWarehouse ==
    /\ pc = "idle"
    /\ request = NoResult
    /\ \E zones \in SeqsUpTo(RequestZone, 2), nodes \in SeqsUpTo(RequestIds, 2),
          edges \in SeqsUpTo(RequestEdge, 2) :
          /\ request' = [zones |-> zones, nodes |-> nodes, edges |-> edges]
          /\ IF ValidationError(zones, nodes, edges)
             THEN /\ pc' = "invalid"
                  /\ warehouse' = NoResult
             ELSE /\ pc' = "built"
                  /\ warehouse' = LegacyWarehouse(90, 1500, zones, nodes, edges)
    /\ UNCHANGED <<robotic, conversion_notes, earlier, obj_vars, exported, connected,
                   navigation, config, battery>>

InitBuild ==
    /\ ConverterIdle
    /\ OutsideConverterIdle

NextBuild == NewLegacyWarehouse \/ ConvertBuilt

SpecBuild == InitBuild /\ [][NextBuild]_vars

\* ------------------------------------------------- serialization
\* json_exporter.py 34-83 and 167-251, routes.py 138-152.  An output is
\* modelled as the JSON value that json.dumps writes; a Python dict is a
\* function together with its key order (keys).
RECURSIVE sum(_)
sum(s) == IF s = <<>> THEN 0 ELSE Head(s) + sum(Tail(s))

min(s) == CHOOSE m \in Range(s) : \A x \in Range(s) : m <= x

max(s) == CHOOSE m \in Range(s) : \A x \in Range(s) : m >= x

\* The (from, to, distance) triples of a matrix in iteration order, without
\* those the node_ids filter drops; an absent or empty node_ids drops none.
matrix_entries(matrix, keys, node_ids) ==
    LET n == Len(keys)
        all == [p \in 1..(n * n) |->
                  [from |-> keys[((p - 1) \div n) + 1],
                   to |-> keys[((p - 1) % n) + 1],
                   distance |-> matrix[keys[((p - 1) \div n) + 1]][keys[((p - 1) % n) + 1]]]]
        kept(e) == node_ids = <<>>
                   \/ (e.from \in Range(node_ids) /\ e.to \in Range(node_ids))
    IN  SelectSeq(all, kept)

\* statistics as if every exported distance were counted
statistics_of_all(entries) ==
    LET all_distances == [i \in DOMAIN entries |-> entries[i].distance]
    IN  IF all_distances = <<>> THEN NoResult
        ELSE [total_connections |-> Len(all_distances),
              min_distance |-> min(all_distances),
              max_distance |-> max(all_distances),
              avg_distance |-> <<sum(all_distances), Len(all_distances)>>]

\* The statistics block (json_exporter.py 232-249); avg_distance is the
\* quotient <<sum, count>>.  NoResult: the key is left out.
statistics_of(entries) ==
    LET positive(e) == e.distance > 0
        counted == SelectSeq(entries, positive)
        all_distances == [i \in DOMAIN counted |-> counted[i].distance]
    IN  IF all_distances = <<>> THEN NoResult
        ELSE [total_connections |-> Len(all_distances),
              min_distance |-> min(all_distances),
              max_distance |-> max(all_distances),
              avg_distance |-> <<sum(all_distances), Len(all_distances)>>]

export_distance_matrix(matrix, keys, node_ids, format_type) ==
    LET entries == matrix_entries(matrix, keys, node_ids)
        kept == IF node_ids = <<>> THEN Range(keys) ELSE Range(keys) \cap Range(node_ids)
        filtered_matrix == [a \in kept |-> [b \in kept |-> matrix[a][b]]]
    IN  IF format_type = "nested"
        THEN [raised |-> FALSE, format |-> "nested_dict", units |-> "meters",
              distance_matrix |-> filtered_matrix, statistics |-> statistics_of(entries)]
        ELSE IF format_type = "flat"
        THEN [raised |-> FALSE, format |-> "flat_list", units |-> "meters",
              distances |-> entries, statistics |-> statistics_of(entries)]
        ELSE [raised |-> TRUE]

\* export_warehouse_json without the name, the dimensions, the per-type
\* counts and the metadata block.
export_warehouse_json(r) ==
    [zones |-> r.zones, nodes |-> r.nodes, edges |-> r.edges,
     charging_stations |-> r.charging_stations,
     navigation_graph |-> r.navigation_graph,
     distance_matrix |-> r.distance_matrix,
     traffic_rules |-> r.traffic_rules,
     statistics |-> [total_nodes |-> Len(r.nodes), total_edges |-> Len(r.edges)]]

_convert_distance_matrix_to_list(matrix_dict, ids) ==
    [i \in 1..Len(ids) |->
        [j \in 1..Len(ids) |->
            IF ids[i] \in DOMAIN matrix_dict /\ ids[j] \in DOMAIN matrix_dict[ids[i]]
            THEN matrix_dict[ids[i]][ids[j]]
            ELSE UNREACHABLE]]

\* Warehouses to serialize: up to MaxEdges edges of 1 m among MaxNodes nodes,
\* or one node fewer.
ExportEdge ==
    [from_node : 1..2, to_node : 2..MaxNodes, distance : {1000}, bidirectional : BOOLEAN]

\* node_ids arguments: none, one id, two ids, and ids of which one may not
\* be a key of the matrix.
NodeIdFilters == {<<>>, <<1>>, <<1, 2>>, <<2, MaxNodes>>}

ExportWarehouseJson ==
    /\ pc = "converted"
    /\ exported' = [op |-> "export_warehouse_json", data |-> export_warehouse_json(robotic)]
    /\ UNCHANGED <<conv_vars, obj_vars, request, connected, navigation, config, battery>>

ExportDistanceMatrix ==
    /\ pc = "converted"
    /\ \E node_ids \in NodeIdFilters, format_type \in {"nested", "flat", "csv"} :
          exported' = [op |-> "export_distance_matrix", node_ids |-> node_ids,
                       format_type |-> format_type,
                       data |-> export_distance_matrix(robotic.distance_matrix,
                                                       robotic.nodes, node_ids, format_type)]
    /\ UNCHANGED <<conv_vars, obj_vars, request, connected, navigation, config, battery>>

\* routes.py 104-108: the API converts the matrix with the ids of all nodes
ConvertDistanceMatrixToList ==
    /\ pc = "converted"
    /\ exported' = [op |-> "_convert_distance_matrix_to_list",
                    data |-> _convert_distance_matrix_to_list(
                                 robotic.distance_matrix, robotic.nodes)]
    /\ UNCHANGED <<conv_vars, obj_vars, request, connected, navigation, config, battery>>

InitExport ==
    /\ \E n \in (MaxNodes - 1)..MaxNodes, edges \in SeqsUpTo(ExportEdge, MaxEdges) :
          warehouse = GraphWarehouse(n, edges)
    /\ pc = "built"
    /\ robotic = NoResult
    /\ conversion_notes = <<>>
    /\ earlier = NoResult
    /\ OutsideConverterIdle

NextExport ==
    ConvertBuilt \/ ExportWarehouseJson \/ ExportDistanceMatrix \/ ConvertDistanceMatrixToList

SpecExport == InitExport /\ [][NextExport]_vars

\* ------------------------------------------------- grid graph builder
\* graph_builder.py 272-346.  Coordinates and grid_size are in m,
\* max_connection_distance in tenths, max_dist in tenths of a metre.  A
\* distance is kept as the number under its square root.
sqrt(sq) == [sqrt_of |-> sq]

\* distances[j] for node_a: sqrt((x_j - x_a)^2 + (y_j - y_a)^2)
distance_between(node_a, node_b) ==
    sqrt((node_b.x - node_a.x) * (node_b.x - node_a.x)
         + (node_b.y - node_a.y) * (node_b.y - node_a.y))

\* (distances > 0) & (distances <= max_dist)
is_neighbor(d, max_dist) ==
    /\ d.sqrt_of > 0
    /\ max_dist >= 0
    /\ 100 * d.sqrt_of <= max_dist * max_dist

\* edge_key as if the two ids were not sorted
edge_key_unsorted(a, b) == <<a, b>>

\* tuple(sorted([node_a.node_id, node_b.node_id]))
edge_key(a, b) == IF a <= b THEN <<a, b>> ELSE <<b, a>>

RECURSIVE connect_row(_, _, _, _, _)
\* The inner loop of connect_nodes for node index i, from candidate index j;
\* acc holds edges, edge_id and created_edges.
connect_row(nodes, max_dist, i, j, acc) ==
    IF j > Len(nodes) \/ acc.edge_id < 0 THEN acc
    ELSE LET node_a == nodes[i]
             node_b == nodes[j]
             weight == distance_between(node_a, node_b)
             key == edge_key(node_a.node_id, node_b.node_id)
         IN  IF ~is_neighbor(weight, max_dist) \/ key \in acc.created_edges
             THEN connect_row(nodes, max_dist, i, j + 1, acc)
             ELSE connect_row(nodes, max_dist, i, j + 1,
                      [edges |-> Append(acc.edges,
                                    [edge_id |-> acc.edge_id,
                                     from_node |-> node_a.node_id,
                                     to_node |-> node_b.node_id,
                                     weight |-> weight,
                                     bidirectional |-> TRUE,
                                     max_width |-> 20]),
                       edge_id |-> acc.edge_id + 1,
                       created_edges |-> acc.created_edges \cup {key}])

RECURSIVE connect_from(_, _, _, _)
\* The outer loop of connect_nodes from node index i.
connect_from(nodes, max_dist, i, acc) ==
    IF i > Len(nodes) \/ acc.edge_id < 0 THEN acc.edges
    ELSE connect_from(nodes, max_dist, i + 1, connect_row(nodes, max_dist, i, 1, acc))

connect_nodes(nodes, grid_size, max_connection_distance) ==
    connect_from(nodes, max_connection_distance * grid_size, 1,
                 [edges |-> <<>>, edge_id |-> 0, created_edges |-> {}])

\* Node lists: up to MaxNodes nodes on grid points, with the ids 0, 1, 2, ...
\* in list order or in reverse list order.
NavPositions == (0..2) \X (0..1)

NavNodeLists ==
    UNION {{[i \in 1..Len(ps) |-> [node_id |-> i - 1, x |-> ps[i][1], y |-> ps[i][2]]],
            [i \in 1..Len(ps) |-> [node_id |-> Len(ps) - i, x |-> ps[i][1], y |-> ps[i][2]]]} :
           ps \in SeqsUpTo(NavPositions, MaxNodes)}

ConnectNodes ==
    /\ connected # NoResult
    /\ ~connected.returned
    /\ connected' = [connected EXCEPT
                       !.returned = TRUE,
                       !.edges = connect_nodes(connected.nodes, connected.grid_size,
                                               connected.max_connection_distance)]
    /\ UNCHANGED <<conv_vars, obj_vars, request, exported, navigation, config, battery>>

InitConnect ==
    /\ ConverterIdle
    /\ ObjectiveIdle
    /\ request = NoResult
    /\ exported = NoResult
    /\ navigation = NoResult
    /\ config = NoResult
    /\ battery = NoResult
    /\ \E nodes \in NavNodeLists, grid_size \in {1, 2}, max_connection_distance \in {10, 15} :
          connected = [nodes |-> nodes, grid_size |-> grid_size,
                       max_connection_distance |-> max_connection_distance,
                       returned |-> FALSE, edges |-> <<>>]

NextConnect == ConnectNodes

SpecConnect == InitConnect /\ [][NextConnect]_vars

\* ------------------------------------------------- navigation graph
\* graph_builder.py 102-270 and 349-440.  Lengths are in half metres.
\* np.arange(0, stop, step): 0, step, 2 step, ... below stop
np_arange(stop, step) == [k \in 1..((stop + step - 1) \div step) |-> (k - 1) * step]

\* clearance = 0.5
_is_position_valid(x, y, obstacles) ==
    ~\E o \in DOMAIN obstacles :
        /\ obstacles[o].x - 1 <= x
        /\ x <= obstacles[o].x + obstacles[o].width + 1
        /\ obstacles[o].y - 1 <= y
        /\ y <= obstacles[o].y + obstacles[o].height + 1

_is_near_zone_entry(x, y, zone, threshold) ==
    IF "entry_x" \notin DOMAIN zone \/ "entry_y" \notin DOMAIN zone THEN FALSE
    ELSE (x - zone.entry_x) * (x - zone.entry_x) + (y - zone.entry_y) * (y - zone.entry_y)
             <= threshold * threshold

\* The node for a valid grid position (graph_builder.py 219-236), without
\* its id.
grid_node(x, y, zones, grid_size) ==
    LET near == {z \in DOMAIN zones : _is_near_zone_entry(x, y, zones[z], grid_size * 2)}
        first == CHOOSE z \in near : \A z2 \in near : z <= z2
    IN  IF near = {}
        THEN [x |-> x, y |-> y, node_type |-> "standard", zone_id |-> "None",
              is_intersection |-> FALSE]
        ELSE [x |-> x, y |-> y, node_type |-> "zone_entry", zone_id |-> zones[first].zone_id,
              is_intersection |-> FALSE]

\* The positions of the two loops (graph_builder.py 207-216), x outermost.
grid_points(w, grid_size) ==
    LET x_points == np_arange(w.length + grid_size, grid_size)
        y_points == np_arange(w.width + grid_size, grid_size)
    IN  [p \in 1..(Len(x_points) * Len(y_points)) |->
            <<x_points[((p - 1) \div Len(y_points)) + 1],
              y_points[((p - 1) % Len(y_points)) + 1]>>]

\* Gives the nodes of a list the ids 0, 1, 2, ... in list order.
with_node_ids(ns) ==
    [i \in DOMAIN ns |->
        [node_id |-> i - 1, x |-> ns[i].x, y |-> ns[i].y, node_type |-> ns[i].node_type,
         zone_id |-> ns[i].zone_id, is_intersection |-> ns[i].is_intersection]]

place_nodes_on_grid(w, grid_size) ==
    LET valid(p) == _is_position_valid(p[1], p[2], w.obstacles)
        kept == SelectSeq(grid_points(w, grid_size), valid)
        grid == [i \in DOMAIN kept |-> grid_node(kept[i][1], kept[i][2], w.zones, grid_size)]
        receiving == IF w.receiving_area = NoResult THEN <<>>
                     ELSE <<[x |-> w.receiving_area.x, y |-> w.receiving_area.y,
                             node_type |-> "receiving", zone_id |-> "receiving",
                             is_intersection |-> FALSE]>>
        shipping == IF w.shipping_area = NoResult THEN <<>>
                    ELSE <<[x |-> w.shipping_area.x, y |-> w.shipping_area.y,
                            node_type |-> "shipping", zone_id |-> "shipping",
                            is_intersection |-> FALSE]>>
    IN  with_node_ids(grid \o receiving \o shipping)

RECURSIVE add_edge(_, _, _)
\* NavigationGraph.add_edge for the edges from position k on
add_edge(adjacency, edges, k) ==
    IF k > Len(edges) \/ DOMAIN adjacency = {} THEN adjacency
    ELSE LET e == edges[k]
             a1 == [adjacency EXCEPT ![e.from_node] = Append(@, e.to_node)]
             a2 == IF e.bidirectional
                   THEN [a1 EXCEPT ![e.to_node] = Append(@, e.from_node)]
                   ELSE a1
         IN  add_edge(a2, edges, k + 1)

\* identify_intersections as if it typed every node with 3 or more
\* neighbours 'intersection'
identify_intersections_any_type(nodes, adjacency) ==
    [i \in DOMAIN nodes |->
        IF Len(adjacency[nodes[i].node_id]) >= 3
        THEN [nodes[i] EXCEPT !.is_intersection = TRUE, !.node_type = "intersection"]
        ELSE nodes[i]]

identify_intersections(nodes, adjacency) ==
    [i \in DOMAIN nodes |->
        LET neighbor_count == Len(adjacency[nodes[i].node_id])
        IN  IF neighbor_count >= 3
            THEN [nodes[i] EXCEPT
                    !.is_intersection = TRUE,
                    !.node_type = IF @ = "standard" THEN "intersection" ELSE @]
            ELSE nodes[i]]

build_navigation_graph(w, grid_size) ==
    LET nodes == place_nodes_on_grid(w, grid_size)
        edges == connect_nodes(nodes, grid_size, 15)
        adjacency == add_edge([id \in {nodes[i].node_id : i \in DOMAIN nodes} |-> <<>>],
                              edges, 1)
    IN  [nodes |-> identify_intersections(nodes, adjacency),
         edges |-> edges, adjacency |-> adjacency]

\* Floors of 2 m or 3 m by 1 m or 2 m; no obstacle, a wall across the floor
\* at x = 1 m, or a post at the origin; no zone or one with its entry at
\* (1 m, 1 m); no receiving area, one at the origin or one at (0.5 m, 0.5 m);
\* no shipping area, one at the far corner of the smallest floor or one 20 m
\* away.
GridWarehouses ==
    [length : {4, 6}, width : {2, 4},
     obstacles : {<<>>, <<[x |-> 2, y |-> 0, width |-> 0, height |-> 4]>>,
                  <<[x |-> 0, y |-> 0, width |-> 0, height |-> 0]>>},
     zones : {<<>>, <<[zone_id |-> "z1", entry_x |-> 2, entry_y |-> 2]>>},
     receiving_area : {NoResult, [x |-> 0, y |-> 0], [x |-> 1, y |-> 1]},
     shipping_area : {NoResult, [x |-> 4, y |-> 2], [x |-> 40, y |-> 40]}]

\* Grid spacings of 1 m and 2 m.
GridSizes == {2, 4}

BuildNavigationGraph ==
    /\ navigation # NoResult
    /\ ~navigation.returned
    /\ \E graph \in {build_navigation_graph(navigation.warehouse, navigation.grid_size)} :
          navigation' = [navigation EXCEPT !.returned = TRUE, !.graph = graph]
    /\ UNCHANGED <<conv_vars, obj_vars, request, exported, connected, config, battery>>

InitNavigation ==
    /\ ConverterIdle
    /\ ObjectiveIdle
    /\ request = NoResult
    /\ exported = NoResult
    /\ connected = NoResult
    /\ config = NoResult
    /\ battery = NoResult
    /\ \E w \in GridWarehouses, grid_size \in GridSizes :
          navigation = [warehouse |-> w, grid_size |-> grid_size, returned |-> FALSE,
                        graph |-> NoResult]

NextNavigation == BuildNavigationGraph

SpecNavigation == InitNavigation /\ [][NextNavigation]_vars

\* ------------------------------------------------- simulation config
\* warehouse_math_foundations.py 356-493.  Speeds are in 1/10 m/s, widths in
\* 1/10 m, thresholds in percent.  Only the fields validate reads are kept.
\* Values: the defaults (speed 1.5, width 0.8, buffer 0.5, aisle 2.5,
\* thresholds 20 and 95, 5 AGVs, 2 per aisle) and values on and beyond each
\* test of validate.
SimulationConfig ==
    [agv : [count : {1, 2, 5}, cruise_speed : {15, 30, 31}, width : {8, 15},
            safety_buffer : {5}],
     layout : [aisle_width : {25}],
     battery : [low_threshold : {20, 95, 96}, high_threshold : {95}],
     traffic : [max_agvs_per_aisle : {1, 2, 3}]]

\* SimulationConfig.validate: the warnings, each named by what it is about
SimulationConfig_validate(c) ==
    (IF c.agv.cruise_speed > 30 THEN <<"cruise_speed">> ELSE <<>>)
    \o (IF c.agv.width >= c.layout.aisle_width - 2 * c.agv.safety_buffer
        THEN <<"agv_width">> ELSE <<>>)
    \o (IF c.battery.low_threshold >= c.battery.high_threshold
        THEN <<"battery_thresholds">> ELSE <<>>)
    \o (IF c.traffic.max_agvs_per_aisle > c.agv.count
        THEN <<"max_agvs_per_aisle">> ELSE <<>>)

ValidateConfig ==
    /\ config # NoResult
    /\ ~config.returned
    /\ config' = [config EXCEPT !.returned = TRUE,
                                !.warnings = SimulationConfig_validate(config.config)]
    /\ UNCHANGED <<conv_vars, obj_vars, request, exported, connected, navigation, battery>>

InitConfig ==
    /\ ConverterIdle
    /\ ObjectiveIdle
    /\ request = NoResult
    /\ exported = NoResult
    /\ connected = NoResult
    /\ navigation = NoResult
    /\ battery = NoResult
    /\ \E c \in SimulationConfig :
          config = [config |-> c, returned |-> FALSE, warnings |-> <<>>]

NextConfig == ValidateConfig

SpecConfig == InitConfig /\ [][NextConfig]_vars

\* ------------------------------------------------- battery constraints
\* warehouse_math_foundations.py 826-863.  Levels and thresholds are in
\* 1/1000 percent, rates in 1/1000 percent per hour, durations in quarter
\* hours, so that rate * duration is exact.
\* BatteryConstraints.__init__ with the default rates; the high threshold is
\* 0, 50, 95 (the default) or 120 percent, the last above the capacity.
BatteryConstraints ==
    [capacity : {100000}, bl_k : {20000}, bh_k : {0, 50000, 95000, 120000},
     rates : {[idle |-> 500, moving |-> 2000, loaded |-> 3500, charging |-> -10000]}]

\* Levels a caller starts from: below zero, zero, the low and the default
\* high threshold, and above the capacity.
BatteryLevels == {-10000, 0, 20000, 95000, 150000}
\* States a caller passes; "docked" is not a key of rates.
BatteryStates == {"idle", "moving", "loaded", "charging", "docked"}
\* Durations of 0, 1 and 10 hours, in quarter hours.
BatteryDurations == {0, 4, 40}

\* self.rates.get(state, self.rates['idle'])
rate_of(self, state) ==
    IF state \in DOMAIN self.rates THEN self.rates[state] ELSE self.rates["idle"]

\* update_battery without the upper clamp: max(0, new_level)
update_battery_no_ceiling(self, current_level, state, duration_hours) ==
    LET new_level == current_level - (rate_of(self, state) * duration_hours) \div 4
    IN  max(<<0, new_level>>)

\* warehouse_math_foundations.py 853-863
update_battery(self, current_level, state, duration_hours) ==
    LET new_level == current_level - (rate_of(self, state) * duration_hours) \div 4
    IN  max(<<0, min(<<self.bh_k, new_level>>)>>)

\* One call; the caller passes the level it holds and keeps the one returned.
UpdateBattery ==
    /\ battery # NoResult
    /\ \E state \in BatteryStates, duration_hours \in BatteryDurations :
          battery' = [battery EXCEPT
                        !.returned = TRUE,
                        !.current_level = battery.level,
                        !.state = state,
                        !.duration_hours = duration_hours,
                        !.level = update_battery(battery.self, battery.level, state,
                                                 duration_hours)]
    /\ UNCHANGED <<conv_vars, obj_vars, request, exported, connected, navigation, config>>

InitBattery ==
    /\ ConverterIdle
    /\ ObjectiveIdle
    /\ request = NoResult
    /\ exported = NoResult
    /\ connected = NoResult
    /\ navigation = NoResult
    /\ config = NoResult
    /\ \E self \in BatteryConstraints, level \in BatteryLevels :
          battery = [self |-> self, level |-> level, returned |-> FALSE,
                     current_level |-> level, state |-> "idle", duration_hours |-> 0]

NextBattery == UpdateBattery

SpecBattery == InitBattery /\ [][NextBattery]_vars

\* ------------------------------------------------- objective function
\* warehouse_math_foundations.py 928-1048.  Weights are in 1/10000, distances
\* in m, times in s, battery in percent; costs are in 1/1000 and the weighted
\* total in 1/10000000.
cost_per_meter == 10
cost_per_second == 5
cost_per_battery_pct == 100
cost_per_conflict == 5000

\* Weight values: the defaults 0.35, 0.30, 0.20, 0.15; 0.4 each with conflict
\* 0; and conflict weights that put the sum 0.0005 and 0.002 off 1.0 (sums
\* exactly 0.001 off are left out: the float sum decides them by its rounding).
OptimizationWeights ==
    [travel : {3500, 4000}, time : {3000, 4000}, energy : {2000, 4000},
     conflict : {0, 1480, 1495, 1500, 1505, 1520}]

Abs(x) == IF x < 0 THEN -x ELSE x

\* OptimizationWeights.validate: TRUE when it raises ValueError
validate(w) ==
    LET total == w.travel + w.time + w.energy + w.conflict
    IN  Abs(total - 10000) > 10

\* The node ids and the distance matrix handed to ObjectiveFunction.
node_ids == <<1, 2>>
distance_matrix == <<<<0, 7>>, <<7, 0>>>>

\* One AGV's path; node 3 is not among node_ids.
Paths == {<<>>, <<1, 2>>, <<1, 2, 1>>, <<1, 3>>}

\* self.node_to_idx[...] raises KeyError for an id that is not in node_ids
get_distance_raises(from_node, to_node) ==
    from_node \notin Range(node_ids) \/ to_node \notin Range(node_ids)

get_distance(from_node, to_node) ==
    distance_matrix[node_to_idx(node_ids, from_node)][node_to_idx(node_ids, to_node)]

RECURSIVE path_distance(_, _)
\* the loop of calculate_travel_cost over one path, from position i
path_distance(path, i) ==
    IF i >= Len(path) THEN 0
    ELSE get_distance(path[i], path[i + 1]) + path_distance(path, i + 1)

calculate_travel_cost(path) == path_distance(path, 1) * cost_per_meter
calculate_time_cost(total_time) == total_time * cost_per_second
calculate_energy_cost(battery_consumption) == battery_consumption * cost_per_battery_pct
calculate_conflict_cost(conflicts) == conflicts * cost_per_conflict

\* ObjectiveFunction.evaluate with the weights object as it is at the call
evaluate(w, path, total_time, battery_consumption, conflicts) ==
    LET z_travel == calculate_travel_cost(path)
        z_time == calculate_time_cost(total_time)
        z_energy == calculate_energy_cost(battery_consumption)
        z_conflict == calculate_conflict_cost(conflicts)
    IN  IF \E i \in 1..(Len(path) - 1) : get_distance_raises(path[i], path[i + 1])
        THEN [op |-> "evaluate", raised |-> TRUE]
        ELSE [op |-> "evaluate", raised |-> FALSE,
              total_cost |-> w.travel * z_travel + w.time * z_time
                             + w.energy * z_energy + w.conflict * z_conflict,
              travel_cost |-> z_travel, time_cost |-> z_time,
              energy_cost |-> z_energy, conflict_cost |-> z_conflict,
              weighted_components |->
                  [travel |-> w.travel * z_travel, time |-> w.time * z_time,
                   energy |-> w.energy * z_energy, conflict |-> w.conflict * z_conflict]]

\* weights = OptimizationWeights(...): a dataclass, constructed unvalidated.
NewWeights ==
    /\ weights = NoResult
    /\ \E w \in OptimizationWeights : weights' = w
    /\ outcome' = [op |-> "weights", raised |-> FALSE]
    /\ UNCHANGED <<objective, outside_objective>>

\* ObjectiveFunction(weights, distance_matrix, node_ids): keeps the weights
\* object itself and validates it once.
Construct ==
    /\ weights # NoResult
    /\ objective = "none"
    /\ objective' = IF validate(weights) THEN "none" ELSE "constructed"
    /\ outcome' = [op |-> "init", raised |-> validate(weights)]
    /\ UNCHANGED <<weights, outside_objective>>

\* weights.<field> = v: the dataclass is not frozen.
SetWeight ==
    /\ weights # NoResult
    /\ \E w \in OptimizationWeights :
          /\ \E f \in {"travel", "time", "energy", "conflict"} :
                w = [weights EXCEPT ![f] = w[f]]
          /\ w # weights
          /\ weights' = w
    /\ outcome' = [op |-> "set", raised |-> FALSE]
    /\ UNCHANGED <<objective, outside_objective>>

\* obj_func.evaluate(...)
Evaluate ==
    /\ objective = "constructed"
    /\ \E path \in Paths, total_time \in {0, 10}, battery_consumption \in {0, 3},
          conflicts \in {0, 1} :
          outcome' = evaluate(weights, path, total_time, battery_consumption, conflicts)
    /\ UNCHANGED <<weights, objective, outside_objective>>

InitObjective ==
    /\ ConverterIdle
    /\ OutsideConverterIdle

NextObjective == NewWeights \/ Construct \/ SetWeight \/ Evaluate

SpecObjective == InitObjective /\ [][NextObjective]_vars

\* =================================================================
\* Properties
\* =================================================================
Converted == pc = "converted"
Nodes == Range(warehouse.nodes)
DM == robotic.distance_matrix
Assessment == robotic.feasibility_assessment

\* Reachability in an adjacency map, by closure from a start set (independent
\* of the distance computation).  An id without an entry has no successors.
RECURSIVE ReachSet(_, _)
ReachSet(graph, S) ==
    LET next == S \cup UNION {Range(graph[u]) : u \in S \cap DOMAIN graph}
    IN  IF next = S THEN S ELSE ReachSet(graph, next)

HasPath(graph, a, b) == b \in ReachSet(graph, {a})

\* Weight of the cheapest traversal from a to b over one edge of the
\* multigraph (INF when no edge allows it).
Traversals(edges, a, b) ==
    {edges[i].distance : i \in {i \in DOMAIN edges :
        \/ edges[i].from_node = a /\ edges[i].to_node = b
        \/ edges[i].bidirectional /\ edges[i].from_node = b /\ edges[i].to_node = a}}

Min(S) == CHOOSE x \in S : \A y \in S : x <= y

CheapestEdge(edges, a, b) ==
    IF Traversals(edges, a, b) = {} THEN INF ELSE Min(Traversals(edges, a, b))

\* Weight of the cheapest path from a to b with at most m edges (Bellman-Ford
\* over the multigraph's cheapest edges); INF when there is none.
RECURSIVE Cheapest(_, _, _, _, _)
Cheapest(ids, edges, a, b, m) ==
    IF m = 0 THEN (IF a = b THEN 0 ELSE INF)
    ELSE Min({Cheapest(ids, edges, a, b, m - 1)} \cup
             {LET p == Cheapest(ids, edges, a, c, m - 1)
                  e == CheapestEdge(edges, c, b)
              IN  IF p = INF \/ e = INF THEN INF ELSE p + e : c \in ids})

\* C1 (as claimed): in the matrix a conversion returns, distance_matrix[n][n]
\* is 0 for every node n, self-loop edges included.
C1_DiagonalZero ==
    Converted => \A n \in Nodes : DM[n][n] = 0

C3_CheapestPath ==
    Converted =>
        \A a \in Nodes : \A b \in Nodes \ {a} :
            DM[a][b] # UNREACHABLE =>
                DM[a][b] = round2(Cheapest(Nodes, warehouse.edges, a, b, Len(warehouse.nodes)))

\* C4 (as claimed): for every bidirectional edge between i and j the two
\* entries agree, whatever other edges the warehouse contains.
C4_BidirectionalEdgeSymmetric ==
    Converted =>
        \A x \in DOMAIN warehouse.edges :
            LET e == warehouse.edges[x]
            IN  e.bidirectional => DM[e.from_node][e.to_node] = DM[e.to_node][e.from_node]

AllBidirectional == \A x \in DOMAIN warehouse.edges : warehouse.edges[x].bidirectional

\* C4 (amended): when every edge is bidirectional the whole matrix is
\* symmetric.
C4_SymmetricWhenAllBidirectional ==
    (Converted /\ AllBidirectional) =>
        \A a \in Nodes : \A b \in Nodes : DM[a][b] = DM[b][a]

\* All edges bidirectional, two of them parallel with different distances,
\* and a pair joined over two edges only.
C4_Witness ==
    /\ Converted
    /\ AllBidirectional
    /\ Len(warehouse.edges) >= 2
    /\ \E a \in Nodes : \E b \in Nodes :
        /\ a # b
        /\ DM[a][b] > 0
        /\ b \notin Range(robotic.navigation_graph[a])

\* C5 (as claimed): the returned table, with rounded entries and -1 for
\* unreachable pairs, satisfies the triangle inequality for all triples.
C5_TriangleOnReturnedTable ==
    Converted =>
        \A i \in Nodes : \A j \in Nodes : \A k \in Nodes :
            DM[i][j] <= DM[i][k] + DM[k][j]

\* C5 (amended): for every triple whose two legs are reachable, the direct
\* entry is reachable and exceeds the sum of the legs by at most 0.01 (the
\* entries are rounded one by one).
C5_TriangleUpToRounding ==
    Converted =>
        \A i \in Nodes : \A j \in Nodes : \A k \in Nodes :
            (DM[i][k] # UNREACHABLE /\ DM[k][j] # UNREACHABLE) =>
                /\ DM[i][j] # UNREACHABLE
                /\ DM[i][j] <= DM[i][k] + DM[k][j] + 10

\* Three distinct nodes whose legs round to 0.00 while the direct entry
\* rounds to 0.01, next to an unreachable pair.
C5_Witness ==
    /\ Converted
    /\ \E i \in Nodes : \E j \in Nodes : \E k \in Nodes :
        /\ DM[i][k] = 0 /\ DM[k][j] = 0 /\ DM[i][j] = 10
        /\ i # k /\ k # j

\* ------------------------------------------------- feasibility claims
Scored(w, r) == r.feasibility_assessment.score
FactorScore(r, i) == r.feasibility_assessment.factors[i].score

\* Two warehouses that differ in nothing but aisle_width.
SameButAisleWidth(w1, w2) == [w1 EXCEPT !.aisle_width = w2.aisle_width] = w2

\* An earlier conversion is kept, and the current one has a warehouse that is
\* the same except for an aisle at least as wide.
WidenedSinceEarlier ==
    /\ earlier # NoResult
    /\ Converted
    /\ SameButAisleWidth(earlier.warehouse, warehouse)
    /\ earlier.warehouse.aisle_width <= warehouse.aisle_width

\* C6 (as claimed): the final score is monotonic non-decreasing in aisle
\* width, all else fixed.
C6_FinalScoreMonotone ==
    WidenedSinceEarlier => Scored(earlier.warehouse, earlier.robotic) <= Scored(warehouse, robotic)

\* C6 (amended): the aisle-width factor is monotonic non-decreasing in aisle
\* width, and so is the final score whenever the space-utilization factor of
\* the wider warehouse is not lower.
C6_AisleFactorMonotone ==
    WidenedSinceEarlier =>
        /\ FactorScore(earlier.robotic, 1) <= FactorScore(robotic, 1)
        /\ FactorScore(earlier.robotic, 3) <= FactorScore(robotic, 3)
            => Scored(earlier.warehouse, earlier.robotic) <= Scored(warehouse, robotic)

\* A strictly wider aisle that crosses a threshold of the aisle-width factor
\* and lowers the space-utilization factor.
C6_Witness ==
    /\ WidenedSinceEarlier
    /\ FactorScore(earlier.robotic, 1) < FactorScore(robotic, 1)
    /\ FactorScore(earlier.robotic, 3) > FactorScore(robotic, 3)

C8_GradeBands ==
    Converted =>
        LET a == Assessment
        IN  /\ a.grade = "A" <=> a.score >= 900
            /\ a.grade = "B" <=> (700 <= a.score /\ a.score < 900)
            /\ a.grade = "C" <=> (500 <= a.score /\ a.score < 700)
            /\ a.grade = "D" <=> (300 <= a.score /\ a.score < 500)
            /\ a.grade = "F" <=> a.score < 300
            /\ a.is_feasible <=> a.score >= 500
            /\ a.is_feasible <=> a.grade \in {"A", "B", "C"}

\* A score exactly on the lower edge of band C, the edge of feasibility.
C8_Witness ==
    /\ Converted
    /\ Assessment.score = 500
    /\ Assessment.grade = "C"
    /\ Assessment.is_feasible

\* C9: the aisle-width factor is the step function 4.0 / 3.0 / 2.0 / 1.0 / 0.0
\* of aisle_width with inclusive lower bounds 3.5, 3.0, 2.5, 2.0 m, and never
\* exceeds 4.0.
C9_AisleWidthSteps ==
    Converted =>
        LET aw == warehouse.aisle_width
            sc == Assessment.factors[1].score
        IN  /\ aw >= 105 => sc = 400
            /\ (90 <= aw /\ aw < 105) => sc = 300
            /\ (75 <= aw /\ aw < 90) => sc = 200
            /\ (60 <= aw /\ aw < 75) => sc = 100
            /\ aw < 60 => sc = 0
            /\ sc <= 400

\* An aisle exactly 3.5 m wide scored 4.0.
C9_Witness ==
    /\ Converted
    /\ warehouse.aisle_width = 105
    /\ Assessment.factors[1].score = 400

\* Aisle zones of the current warehouse (zone-list positions), and their
\* order by origin x, ties by position.
AisleZoneIds == {i \in DOMAIN warehouse.zones : warehouse.zones[i].zone_type = "aisle"}
Before(i, j) ==
    LET zi == warehouse.zones[i]
        zj == warehouse.zones[j]
    IN  zi.x < zj.x \/ (zi.x = zj.x /\ i < j)
\* Gaps between aisle origins that are neighbours in that order.
NeighbourGaps ==
    {warehouse.zones[j].x - warehouse.zones[i].x :
        <<i, j>> \in {p \in AisleZoneIds \X AisleZoneIds :
            /\ Before(p[1], p[2])
            /\ ~\E m \in AisleZoneIds : Before(p[1], m) /\ Before(m, p[2])}}
WidthsIdentical ==
    \A i \in AisleZoneIds : \A j \in AisleZoneIds :
        warehouse.zones[i].width = warehouse.zones[j].width
SpacingRegular == \A g \in NeighbourGaps : \A h \in NeighbourGaps : g - h < 30

\* The regularity rule for a given number of aisles.
RegularityRule(count) ==
    IF count >= 2
    THEN IF WidthsIdentical /\ SpacingRegular THEN 250
         ELSE IF WidthsIdentical \/ SpacingRegular THEN 150
         ELSE 50
    ELSE IF count = 1 THEN 100
    ELSE 0

\* C10 (as claimed): the layout-regularity factor follows the rule with the
\* number of aisles taken from the warehouse's aisle count.
C10_RegularityByAisleCount ==
    Converted => Assessment.factors[2].score = RegularityRule(warehouse.aisles)

\* C10 (amended): the layout-regularity factor follows the rule with the
\* number of aisles taken as the number of zones of type aisle in the zone
\* list (widths are those zones' widths, spacing the gaps between their
\* sorted origins x).
C10_RegularityByAisleZones ==
    Converted => Assessment.factors[2].score = RegularityRule(Cardinality(AisleZoneIds))

\* Three aisle zones of one width whose gaps differ by exactly 1.0 m, in a
\* warehouse whose aisle count is 5: scored 1.5.
C10_Witness ==
    /\ Converted
    /\ Cardinality(AisleZoneIds) = 3
    /\ warehouse.aisles = 5
    /\ WidthsIdentical
    /\ \E g \in NeighbourGaps : \E h \in NeighbourGaps : g - h = 30
    /\ Assessment.factors[2].score = 150

\* ------------------------------------------------- space utilization
\* Aisle area and floor area of the current warehouse.
AisleArea == warehouse.aisles * warehouse.aisle_width * warehouse.aisle_length
FloorArea == warehouse.width * warehouse.length

\* utilization >= p percent, > p percent (the floor area is positive)
AtLeastPct(p) == 100 * AisleArea >= p * FloorArea
OverPct(p) == 100 * AisleArea > p * FloorArea

\* C11: the space-utilization factor is 2.0 for utilization in [0.3, 0.5],
\* 1.5 for utilization in [0.2, 0.3) or (0.5, 0.6], and 1.0 otherwise
\* (utilization above 1.0 included); the floor area of a converted warehouse
\* is positive, so the division is always made.
C11_SpaceUtilizationBands ==
    Converted =>
        /\ FloorArea > 0
        /\ Assessment.factors[3].score =
              IF AtLeastPct(30) /\ ~OverPct(50) THEN 200
              ELSE IF (AtLeastPct(20) /\ ~AtLeastPct(30)) \/ (OverPct(50) /\ ~OverPct(60))
              THEN 150
              ELSE 100

\* Utilization exactly 0.6 (5 aisles of 6.0 m x 24 m on 20 m x 60 m), scored 1.5.
C11_Witness ==
    /\ Converted
    /\ 100 * AisleArea = 60 * FloorArea
    /\ Assessment.factors[3].score = 150

\* ------------------------------------------------- Layout A
IsLayoutA == Len(warehouse.nodes) = 17 /\ warehouse = create_layout_a_warehouse

TagFactor(tag) ==
    IF tag \in {"aisle_below_optimal", "aisle_below_minimum", "aisle_critically_narrow",
                "aisle_cannot_fit"} THEN 1
    ELSE IF tag \in {"partially_regular", "irregular", "single_aisle", "no_aisles"} THEN 2
    ELSE IF tag \in {"utilization_high", "utilization_low", "utilization_critical",
                     "utilization_very_low"} THEN 3
    ELSE IF tag \in {"missing_drop", "missing_pickup", "no_endpoints"} THEN 4
    ELSE 0

\* The factors of the current assessment whose status is not optimal.
Missed == {i \in 1..4 : Assessment.factors[i].status # "optimal"}

\* s names exactly the missed factors, one entry each, in factor order.
OnePerMissedFactor(s) ==
    /\ Len(s) = Cardinality(Missed)
    /\ {TagFactor(s[i]) : i \in DOMAIN s} = Missed
    /\ \A i \in DOMAIN s : \A j \in DOMAIN s : i < j => TagFactor(s[i]) < TagFactor(s[j])

\* C13: every factor that is not optimal contributes exactly one issue and
\* one action, in factor order, so the two lists have the same length; when
\* no factor misses, each list holds its single placeholder.
C13_OneIssueAndActionPerMiss ==
    Converted =>
        /\ Len(Assessment.issues) = Len(Assessment.actions)
        /\ IF Missed = {}
           THEN Assessment.issues = <<"no_issues">> /\ Assessment.actions = <<"no_actions">>
           ELSE OnePerMissedFactor(Assessment.issues) /\ OnePerMissedFactor(Assessment.actions)

\* An assessment in which aisle width and accessibility are optimal while
\* regularity and space utilization miss: two issues, two actions.
C13_Witness ==
    /\ Converted
    /\ Missed = {2, 3}
    /\ Len(Assessment.issues) = 2
    /\ Len(Assessment.actions) = 2

\* An assessment with every factor optimal (score 10.0): the placeholders.
AllOptimalReached ==
    /\ Converted
    /\ Missed = {}
    /\ Assessment.score = 1000
    /\ Assessment.issues = <<"no_issues">>

\* ------------------------------------------------- objective weights
\* C14 (as claimed): no call of evaluate returns a cost while the four
\* weights in use differ in sum from 1.0 by more than 0.001, whatever was
\* done to the weights before the call.
C14_EvaluateNeedsValidWeights ==
    (outcome # NoResult /\ outcome.op = "evaluate" /\ ~outcome.raised) =>
        Abs(weights.travel + weights.time + weights.energy + weights.conflict - 10000) <= 10

\* ------------------------------------------------- unique ids
HasDuplicateId(entries) ==
    \E i \in DOMAIN entries : \E j \in DOMAIN entries :
        i # j /\ id_of(entries, i) = id_of(entries, j)

HasDuplicateNode(nodes) ==
    \E i \in DOMAIN nodes : \E j \in DOMAIN nodes : i # j /\ nodes[i] = nodes[j]

HasDuplicates(obj) ==
    HasDuplicateId(obj.zones) \/ HasDuplicateNode(obj.nodes) \/ HasDuplicateId(obj.edges)

\* C15: a construction whose zone, node or edge list has two entries with
\* one id fails with a validation error and leaves no warehouse object, and
\* every LegacyWarehouse and RoboticWarehouse that exists has pairwise
\* distinct zone ids, node ids and edge ids.
C15_DuplicateIdsRejected ==
    /\ (request # NoResult /\ HasDuplicates(request)) =>
           (pc = "invalid" /\ warehouse = NoResult /\ robotic = NoResult)
    /\ warehouse # NoResult => ~HasDuplicates(warehouse)
    /\ robotic # NoResult => ~HasDuplicates(robotic)

\* C15 witness: a construction with two edges of one id, and distinct zone
\* and node ids, was rejected.
C15_Witness ==
    /\ request # NoResult
    /\ HasDuplicateId(request.edges)
    /\ ~HasDuplicateId(request.zones)
    /\ ~HasDuplicateNode(request.nodes)
    /\ Len(request.nodes) = 2
    /\ pc = "invalid"

\* A warehouse with distinct ids was constructed and converted.
C15_ConvertedReached ==
    /\ request # NoResult
    /\ Len(request.edges) = 2
    /\ Len(request.zones) = 2
    /\ robotic # NoResult

\* ------------------------------------------------- edge endpoints
Dangling(obj) ==
    \E i \in DOMAIN obj.edges :
        obj.edges[i].from_node \notin Range(obj.nodes)
        \/ obj.edges[i].to_node \notin Range(obj.nodes)

\* C16 (as claimed): a construction with an edge whose from_node or to_node
\* is not the id of a node in the node list is rejected with a validation
\* error, so that no conversion runs on a warehouse with such an edge.
C16_DanglingEdgeRejected ==
    (request # NoResult /\ Dangling(request)) => (pc = "invalid" /\ warehouse = NoResult)

\* ------------------------------------------------- serialization layers
Serialized == exported # NoResult /\ ~(exported.op = "export_distance_matrix" /\ exported.data.raised)

\* The values an output holds for the pair (a, b).
OutputValues(a, b) ==
    IF exported.op = "export_warehouse_json"
    THEN IF a \in DOMAIN exported.data.distance_matrix
            /\ b \in DOMAIN exported.data.distance_matrix[a]
         THEN {exported.data.distance_matrix[a][b]} ELSE {}
    ELSE IF exported.op = "_convert_distance_matrix_to_list"
    THEN {exported.data[i][j] : <<i, j>> \in
             {p \in (DOMAIN exported.data) \X (DOMAIN exported.data) :
                 warehouse.nodes[p[1]] = a /\ warehouse.nodes[p[2]] = b}}
    ELSE IF exported.format_type = "nested"
    THEN IF a \in DOMAIN exported.data.distance_matrix
            /\ b \in DOMAIN exported.data.distance_matrix[a]
         THEN {exported.data.distance_matrix[a][b]} ELSE {}
    ELSE {exported.data.distances[i].distance : i \in
             {k \in DOMAIN exported.data.distances :
                 exported.data.distances[k].from = a /\ exported.data.distances[k].to = b}}

\* The pair is among those the caller asked for.
Selected(a, b) ==
    \/ exported.op # "export_distance_matrix"
    \/ exported.node_ids = <<>>
    \/ (a \in Range(exported.node_ids) /\ b \in Range(exported.node_ids))

\* The selected pairs whose distance is neither 0 nor the unreachable marker.
CountedPairs == {p \in Nodes \X Nodes : Selected(p[1], p[2]) /\ DM[p[1]][p[2]] > 0}

RECURSIVE SumOver(_)
SumOver(P) ==
    IF P = {} THEN 0
    ELSE LET p == CHOOSE q \in P : TRUE IN DM[p[1]][p[2]] + SumOver(P \ {p})

\* The exported statistics are those of the counted pairs alone.
StatisticsSkipUnreachable ==
    (Serialized /\ exported.op = "export_distance_matrix") =>
        IF CountedPairs = {} THEN exported.data.statistics = NoResult
        ELSE /\ exported.data.statistics # NoResult
             /\ exported.data.statistics.total_connections = Cardinality(CountedPairs)
             /\ \A p \in CountedPairs :
                    /\ exported.data.statistics.min_distance <= DM[p[1]][p[2]]
                    /\ exported.data.statistics.max_distance >= DM[p[1]][p[2]]
             /\ exported.data.statistics.min_distance > 0
             /\ exported.data.statistics.avg_distance
                    = <<SumOver(CountedPairs), Cardinality(CountedPairs)>>

\* C17 (as claimed): every serialization outputs, for every pair of nodes,
\* the matrix value of the pair, -1 for an unreachable pair included, and
\* the statistics never count a -1.
C17_EveryPairSerialized ==
    /\ Serialized => \A a \in Nodes : \A b \in Nodes : OutputValues(a, b) = {DM[a][b]}
    /\ StatisticsSkipUnreachable

\* C17 (amended): the same for every pair the caller selects: all pairs,
\* except in export_distance_matrix with a non-empty node_ids list, which
\* outputs the pairs of listed ids and nothing for the others.
C17_SelectedPairsSerialized ==
    /\ Serialized => \A a \in Nodes : \A b \in Nodes :
           OutputValues(a, b) = IF Selected(a, b) THEN {DM[a][b]} ELSE {}
    /\ StatisticsSkipUnreachable

\* C17 witness: a flat export of all pairs with an unreachable pair and
\* statistics over distances of two different sizes.
C17_Witness ==
    /\ Serialized
    /\ exported.op = "export_distance_matrix"
    /\ exported.format_type = "flat"
    /\ exported.node_ids = <<>>
    /\ \E a \in Nodes : \E b \in Nodes :
           DM[a][b] = UNREACHABLE /\ OutputValues(a, b) = {UNREACHABLE}
    /\ exported.data.statistics # NoResult
    /\ exported.data.statistics.min_distance < exported.data.statistics.max_distance

\* ------------------------------------------------- Layout A graph
\* C18: Layout A has 17 nodes (pickup, drop, and entry, mid and exit of each
\* of 5 aisles) and 24 bidirectional edges, among them a crossover edge
\* between adjacent aisles at each of entry, mid and exit level; every node
\* reaches every node, and after conversion no distance-matrix entry is -1
\* and the matrix is symmetric.
C18_LayoutAConnected ==
    IsLayoutA =>
        /\ Nodes = {node_pickup, node_drop}
                   \cup UNION {{node_aisle_entry(i), node_aisle_mid(i), node_aisle_exit(i)} :
                               i \in 1..5}
        /\ Cardinality(Nodes) = 17
        /\ Len(warehouse.nodes) = 17
        /\ Len(warehouse.edges) = 24
        /\ AllBidirectional
        /\ \A i \in 1..4 :
               \A level \in {<<node_aisle_entry(i), node_aisle_entry(i + 1)>>,
                             <<node_aisle_mid(i), node_aisle_mid(i + 1)>>,
                             <<node_aisle_exit(i), node_aisle_exit(i + 1)>>} :
                   \E x \in DOMAIN warehouse.edges :
                       /\ warehouse.edges[x].from_node = level[1]
                       /\ warehouse.edges[x].to_node = level[2]
        /\ Converted =>
               /\ \A a \in Nodes : ReachSet(robotic.navigation_graph, {a}) = Nodes
               /\ \A a \in Nodes : \A b \in Nodes :
                      DM[a][b] # UNREACHABLE /\ DM[a][b] = DM[b][a]

\* C18 witness: Layout A converted, with 68.18 m from pickup to drop.
C18_Witness ==
    /\ Converted
    /\ IsLayoutA
    /\ DOMAIN DM = Nodes
    /\ DM[node_pickup][node_drop] = 68180

\* ------------------------------------------------- independent conversions
NotesTagged(notes, tag) == {i \in DOMAIN notes : notes[i][1] = tag}

\* The notes of one run on the warehouse converted last: ten notes, the
\* first on its aisle width, and one on its graph.
OwnRunOnly(notes) ==
    /\ Len(notes) = 10
    /\ notes[1][2] = warehouse.aisle_width
    /\ Cardinality(NotesTagged(notes, "graph_built")) = 1
    /\ Cardinality(NotesTagged(notes, "final_score")) = 1

\* C19: on one converter, a call's result is determined by its input
\* warehouse alone (the same warehouse converted again, after whatever other
\* calls, gives the same result), its conversion_notes are the notes of its
\* own run only, and a result kept from an earlier call is not changed by a
\* later call.
C19_ConversionsIndependent ==
    /\ []((earlier # NoResult /\ Converted /\ earlier.warehouse = warehouse) =>
              robotic = earlier.robotic)
    /\ [](Converted => (robotic.conversion_notes = conversion_notes
                        /\ OwnRunOnly(robotic.conversion_notes)))
    /\ [][(earlier # NoResult /\ ~Keep) => earlier'.robotic = earlier.robotic]_vars

\* C19 witness: a result was kept and a different warehouse was converted
\* after it, with other notes.
C19_Witness ==
    /\ earlier # NoResult
    /\ earlier.other_since
    /\ Converted
    /\ earlier.warehouse # warehouse
    /\ earlier.robotic.conversion_notes # robotic.conversion_notes
    /\ Len(earlier.robotic.conversion_notes) = 10

\* ------------------------------------------------- connect_nodes
ConnectedDone == connected # NoResult /\ connected.returned

\* The number under the root of the Euclidean distance of the list entries
\* i and j.
SquaredDistance(i, j) ==
    LET a == connected.nodes[i]
        b == connected.nodes[j]
    IN  (a.x - b.x) * (a.x - b.x) + (a.y - b.y) * (a.y - b.y)

\* 0 < d <= max_connection_distance x grid_size, in squares of tenths.
InRange(i, j) ==
    /\ SquaredDistance(i, j) > 0
    /\ 100 * SquaredDistance(i, j)
           <= (connected.max_connection_distance * connected.grid_size)
              * (connected.max_connection_distance * connected.grid_size)

\* The edges that join the list entries i and j, in either direction.
EdgesJoining(i, j) ==
    {k \in DOMAIN connected.edges :
        {connected.edges[k].from_node, connected.edges[k].to_node}
            = {connected.nodes[i].node_id, connected.nodes[j].node_id}}

\* C20: connect_nodes returns exactly one edge for every unordered pair of
\* nodes with 0 < d <= max_connection_distance x grid_size and no edge for
\* any other pair or from a node to itself; every edge is bidirectional and
\* weighs the Euclidean distance of its endpoints, and the edge ids are
\* 0, 1, 2, ... in list order.
C20_OneEdgePerNearPair ==
    ConnectedDone =>
        /\ \A i \in DOMAIN connected.nodes : \A j \in DOMAIN connected.nodes :
               i # j => Cardinality(EdgesJoining(i, j)) = IF InRange(i, j) THEN 1 ELSE 0
        /\ \A k \in DOMAIN connected.edges :
               LET e == connected.edges[k]
               IN  /\ e.from_node # e.to_node
                   /\ e.bidirectional
                   /\ e.edge_id = k - 1
                   /\ \E i \in DOMAIN connected.nodes : \E j \in DOMAIN connected.nodes :
                          /\ connected.nodes[i].node_id = e.from_node
                          /\ connected.nodes[j].node_id = e.to_node
                          /\ InRange(i, j)
                          /\ e.weight = [sqrt_of |-> SquaredDistance(i, j)]

\* C20 witness: three nodes, two of them in range of each other both ways
\* round, a pair out of range, and two edges made.
C20_Witness ==
    /\ ConnectedDone
    /\ Len(connected.nodes) = 3
    /\ Len(connected.edges) = 2
    /\ \E i \in DOMAIN connected.nodes : \E j \in DOMAIN connected.nodes :
           i # j /\ SquaredDistance(i, j) > 0 /\ ~InRange(i, j)
    /\ connected.edges[2].edge_id = 1

\* ------------------------------------------------- intersections
GraphBuilt == navigation # NoResult /\ navigation.returned
GraphNodes == navigation.graph.nodes

\* The node ids joined to the node id by an edge, in either direction.
Neighbours(id) ==
    {e.to_node : e \in {x \in Range(navigation.graph.edges) : x.from_node = id}}
    \cup {e.from_node : e \in {x \in Range(navigation.graph.edges) : x.to_node = id}}

\* The nodes as place_nodes_on_grid made them.
PlacedNodes == place_nodes_on_grid(navigation.warehouse, navigation.grid_size)

\* C21: after build_navigation_graph a node has is_intersection exactly
\* when it has 3 or more distinct neighbours; such a node is of type
\* 'intersection' if it was 'standard' and keeps its type otherwise; a node
\* with fewer neighbours is as it was placed.
C21_IntersectionsMarked ==
    GraphBuilt =>
        /\ Len(GraphNodes) = Len(PlacedNodes)
        /\ \A i \in DOMAIN GraphNodes :
               LET node == GraphNodes[i]
                   placed == PlacedNodes[i]
               IN  /\ node.is_intersection <=> Cardinality(Neighbours(node.node_id)) >= 3
                   /\ IF Cardinality(Neighbours(node.node_id)) >= 3
                      THEN /\ node.node_type = IF placed.node_type = "standard"
                                               THEN "intersection" ELSE placed.node_type
                           /\ [node EXCEPT !.node_type = "x", !.is_intersection = FALSE]
                                  = [placed EXCEPT !.node_type = "x"]
                      ELSE node = placed

\* C21 witness: a graph with an intersection that was a standard node, a
\* zone-entry node with 3 neighbours, and a node with fewer than 3.
C21_Witness ==
    /\ GraphBuilt
    /\ \E i \in DOMAIN GraphNodes :
           GraphNodes[i].node_type = "intersection" /\ GraphNodes[i].is_intersection
    /\ \E i \in DOMAIN GraphNodes :
           GraphNodes[i].node_type = "zone_entry" /\ GraphNodes[i].is_intersection
    /\ \E i \in DOMAIN GraphNodes :
           /\ ~GraphNodes[i].is_intersection
           /\ Cardinality(Neighbours(GraphNodes[i].node_id)) = 2

\* ------------------------------------------------- connected graph
\* The node ids reachable from a set of node ids over the created edges.
RECURSIVE GraphReach(_)
GraphReach(S) ==
    LET next == S \cup UNION {Neighbours(id) : id \in S}
    IN  IF next = S THEN S ELSE GraphReach(next)

\* C22 (as claimed): in the graph returned by build_navigation_graph every
\* node is reachable from every other node over the created edges.
C22_GraphConnected ==
    GraphBuilt =>
        \A i \in DOMAIN GraphNodes :
            GraphReach({GraphNodes[i].node_id}) = {GraphNodes[j].node_id : j \in DOMAIN GraphNodes}

\* C22 with neither obstacle nor receiving or shipping area.
C22_PlainGridConnected ==
    (GraphBuilt /\ navigation.warehouse.obstacles = <<>>
     /\ navigation.warehouse.receiving_area = NoResult
     /\ navigation.warehouse.shipping_area = NoResult) =>
        \A i \in DOMAIN GraphNodes :
            GraphReach({GraphNodes[i].node_id}) = {GraphNodes[j].node_id : j \in DOMAIN GraphNodes}

\* ------------------------------------------------- grid inside the floor
GridNodes == {i \in DOMAIN GraphNodes : GraphNodes[i].node_type \notin {"receiving", "shipping"}}

\* C23 (as claimed): every grid node has coordinates that are multiples of
\* the grid spacing with 0 <= x <= length and 0 <= y <= width.
C23_GridInsideFloor ==
    GraphBuilt =>
        \A i \in GridNodes :
            /\ GraphNodes[i].x % navigation.grid_size = 0
            /\ GraphNodes[i].y % navigation.grid_size = 0
            /\ 0 <= GraphNodes[i].x /\ GraphNodes[i].x <= navigation.warehouse.length
            /\ 0 <= GraphNodes[i].y /\ GraphNodes[i].y <= navigation.warehouse.width

\* C23 for dimensions that are multiples of the grid spacing.
C23_GridInsideFloorOfMultiples ==
    (GraphBuilt /\ navigation.warehouse.length % navigation.grid_size = 0
     /\ navigation.warehouse.width % navigation.grid_size = 0) =>
        \A i \in GridNodes :
            /\ GraphNodes[i].x % navigation.grid_size = 0
            /\ GraphNodes[i].y % navigation.grid_size = 0
            /\ 0 <= GraphNodes[i].x /\ GraphNodes[i].x <= navigation.warehouse.length
            /\ 0 <= GraphNodes[i].y /\ GraphNodes[i].y <= navigation.warehouse.width

\* ------------------------------------------------- charging stations
\* The station (coordinates in 1/60 m) is inside the rectangle of the zone
\* (coordinates in 1/30 m), its border not counted.
InsideZone(station, zone) ==
    /\ 2 * zone.x < station.x
    /\ station.x < 2 * (zone.x + zone.width)
    /\ 2 * zone.y < station.y
    /\ station.y < 2 * (zone.y + zone.height)

\* C24 (as claimed): no charging station of a conversion lies inside the
\* rectangle of a zone of type aisle, and every station is a node of zone
\* type and node type charging.
C24_StationsOutsideAisles ==
    Converted =>
        \A k \in DOMAIN robotic.charging_stations :
            LET station == robotic.charging_stations[k]
            IN  /\ station.zone_type = "charging"
                /\ station.node_type = "charging"
                /\ \A z \in AisleZoneIds : ~InsideZone(station, warehouse.zones[z])

\* Every station of a conversion is a node of zone type and node type
\* charging.
C24_StationsAreChargingNodes ==
    Converted =>
        \A k \in DOMAIN robotic.charging_stations :
            /\ robotic.charging_stations[k].zone_type = "charging"
            /\ robotic.charging_stations[k].node_type = "charging"

\* ------------------------------------------------- traffic rules
ZonesOfType(t) == {z \in DOMAIN warehouse.zones : warehouse.zones[z].zone_type = t}

\* The k-th zone of a type in zone-list order.
KthZone(t, k) ==
    CHOOSE z \in ZonesOfType(t) : Cardinality({y \in ZonesOfType(t) : y < z}) = k - 1

FirstZoneId(t) == id_of(warehouse.zones, KthZone(t, 1))

\* C25: the traffic rules are one one_way rule per aisle zone in zone-list
\* order, northbound for the 1st, 3rd, ... and southbound for the 2nd, 4th,
\* ... aisle, then a priority rule for the pickup zone iff there is one,
\* then a priority rule for the drop zone iff there is one; there are no
\* other rules and the rule ids are pairwise distinct.
C25_TrafficRulesInOrder ==
    Converted =>
        LET rules == robotic.traffic_rules
            n == Cardinality(ZonesOfType("aisle"))
            p == IF ZonesOfType("pickup") # {} THEN 1 ELSE 0
            d == IF ZonesOfType("drop") # {} THEN 1 ELSE 0
        IN  /\ Len(rules) = n + p + d
            /\ \A k \in 1..n :
                   /\ rules[k].rule_type = "one_way"
                   /\ rules[k].applies_to = <<id_of(warehouse.zones, KthZone("aisle", k))>>
                   /\ rules[k].description = IF k % 2 = 1 THEN "north" ELSE "south"
            /\ p = 1 => /\ rules[n + 1].rule_type = "priority"
                        /\ rules[n + 1].applies_to = <<FirstZoneId("pickup")>>
                        /\ rules[n + 1].description = "pickup"
            /\ d = 1 => /\ rules[n + p + 1].rule_type = "priority"
                        /\ rules[n + p + 1].applies_to = <<FirstZoneId("drop")>>
                        /\ rules[n + p + 1].description = "drop"
            /\ \A a \in DOMAIN rules : \A b \in DOMAIN rules :
                   a # b => rules[a].rule_id # rules[b].rule_id

\* C25 witness: two aisle zones after a pickup and a drop zone in the zone
\* list, and four rules.
C25_Witness ==
    /\ Converted
    /\ Len(robotic.traffic_rules) = 4
    /\ Cardinality(ZonesOfType("aisle")) = 2
    /\ ZonesOfType("pickup") # {}
    /\ ZonesOfType("drop") # {}
    /\ robotic.traffic_rules[2].description = "south"

\* ------------------------------------------------- domain warnings
\* C26 (as claimed): validate returns a list that holds a warning whenever
\* the battery thresholds are inverted (low >= high) and whenever the fleet
\* size exceeds the per-aisle capacity (agv.count > max_agvs_per_aisle).
C26_WarningsCollected ==
    (config # NoResult /\ config.returned) =>
        /\ config.config.battery.low_threshold >= config.config.battery.high_threshold
               => "battery_thresholds" \in Range(config.warnings)
        /\ config.config.agv.count > config.config.traffic.max_agvs_per_aisle
               => Len(config.warnings) > 0

\* validate warns exactly when the battery thresholds are inverted.
C26_BatteryWarning ==
    (config # NoResult /\ config.returned) =>
        (config.config.battery.low_threshold >= config.config.battery.high_threshold
            <=> "battery_thresholds" \in Range(config.warnings))

\* A conversion with an aisle narrower than 3.0 m completes and its first
\* note is the finding.
C26_NarrowAisleNoted ==
    (pc # "built" /\ warehouse # NoResult /\ warehouse.aisle_width < MIN_AISLE_WIDTH
     /\ ~Dangling(warehouse)) =>
        /\ Converted
        /\ robotic.conversion_notes[1] = <<"aisle_below_minimum", warehouse.aisle_width>>

\* ------------------------------------------------- the ten notes
\* What each note of a run is about, in the order the run appends them.
NoteOrder ==
    <<"aisle_width_validation", "graph_built", "distance_matrix", "charging_stations",
      "traffic_rules", "aisle_width_score", "layout_regularity_score",
      "space_utilization_score", "accessibility_score", "final_score">>

NoteKind(note) ==
    IF note[1] \in {"aisle_below_minimum", "aisle_below_optimal", "aisle_optimal"}
    THEN "aisle_width_validation"
    ELSE note[1]

\* C27: every successful conversion records exactly ten notes, in the order
\* aisle-width validation, graph built, distance matrix, charging stations,
\* traffic rules, the four factor scores, final score, whatever the warehouse.
C27_TenNotesInOrder ==
    Converted =>
        [i \in DOMAIN robotic.conversion_notes |-> NoteKind(robotic.conversion_notes[i])]
            = NoteOrder

\* C27 witness: a converted warehouse with a narrow aisle, three zones and no
\* aisle zone among them, and its ten notes.
C27_Witness ==
    /\ Converted
    /\ warehouse.aisle_width < MIN_AISLE_WIDTH
    /\ Len(warehouse.zones) = 3
    /\ zones_of_type(warehouse.zones, "aisle", 1) = <<>>
    /\ Len(robotic.conversion_notes) = 10
    /\ robotic.conversion_notes[5] = <<"traffic_rules", 2>>

\* ------------------------------------------------- placeholders and score
\* The factors of the current assessment scored below their maximum.
BelowMax == {i \in 1..4 : Assessment.factors[i].score < Assessment.factors[i].max_score}

FactorSum ==
    Assessment.factors[1].score + Assessment.factors[2].score
        + Assessment.factors[3].score + Assessment.factors[4].score

\* C28: the issues list is the "no issues" placeholder, and the actions list
\* the "no actions" placeholder, exactly when the final score is 10.0; below
\* 10.0 there are as many issues as factors scored below their maximum; the
\* final score is the sum of the four factor scores.
C28_PlaceholdersAtFullScore ==
    Converted =>
        /\ Assessment.issues = <<"no_issues">> <=> Assessment.score = 1000
        /\ Assessment.actions = <<"no_actions">> <=> Assessment.score = 1000
        /\ Assessment.score < 1000 => Len(Assessment.issues) = Cardinality(BelowMax)
        /\ Assessment.score = FactorSum
        /\ Len(Assessment.factors) = 4

\* C28 witness: a score of 9.5 with one factor below its maximum and the one
\* issue it gave, no placeholder.
C28_Witness ==
    /\ Converted
    /\ Assessment.score = 950
    /\ Cardinality(BelowMax) = 1
    /\ Len(Assessment.issues) = 1
    /\ Assessment.issues # <<"no_issues">>
    /\ Assessment.actions # <<"no_actions">>

\* ------------------------------------------------- stations on a small floor
\* The floor is narrower than 1.5 m or shorter than 8.0 m.
SmallFloor == warehouse.width < 45 \/ warehouse.length < 240

\* C29: a conversion of a warehouse narrower than 1.5 m or shorter than 8.0 m
\* fails and returns no result; on any other floor a conversion whose graph
\* can be built completes and returns exactly the three stations charging_1,
\* charging_2, charging_3, whatever the zones.
C29_SmallFloorRejected ==
    pc # "built" =>
        IF SmallFloor
        THEN pc = "raised" /\ robotic = NoResult
        ELSE ~Dangling(warehouse) =>
                /\ Converted
                /\ [i \in DOMAIN robotic.charging_stations |->
                        robotic.charging_stations[i].id]
                     = << <<"charging", 1>>, <<"charging", 2>>, <<"charging", 3>> >>

\* C29 witness: a floor 1.4 m wide and 60 m long, with a pickup zone, was
\* rejected after the distance matrix was computed.
C29_Witness ==
    /\ pc = "raised"
    /\ warehouse.width = 42
    /\ warehouse.length = 1800
    /\ Len(warehouse.zones) = 1
    /\ robotic = NoResult
    /\ Len(conversion_notes) = 3

\* A floor of exactly 1.5 m by 8.0 m is converted, with three stations.
C29_SmallestFloorReached ==
    /\ Converted
    /\ warehouse.width = 45
    /\ warehouse.length = 240
    /\ Len(robotic.charging_stations) = 3

\* ------------------------------------------------- battery level
\* C30: after any sequence of update_battery calls, with any state (a name
\* that is no key of rates counts as idle) and any non-negative duration,
\* from any level, the returned level is within [0, high_threshold].
C30_LevelWithinThresholds ==
    (battery # NoResult /\ battery.returned) =>
        /\ 0 <= battery.level
        /\ battery.level <= battery.self.bh_k

\* A state name that is no key of rates discharges at the idle rate.
C30_UnknownStateIsIdle ==
    (battery # NoResult /\ battery.returned /\ battery.state = "docked") =>
        battery.level =
            update_battery(battery.self, battery.current_level, "idle", battery.duration_hours)

\* C30 witness: ten hours of charging from a level below the high threshold
\* of 95 percent returned the threshold, not the 120 percent computed.
C30_Witness ==
    /\ battery # NoResult
    /\ battery.returned
    /\ battery.state = "charging"
    /\ battery.duration_hours = 40
    /\ battery.self.bh_k = 95000
    /\ battery.current_level = 20000
    /\ battery.level = 95000

\* A call that discharges a level of 1.5 percent for an hour returned 0.
C30_FloorReached ==
    /\ battery # NoResult
    /\ battery.returned
    /\ battery.state = "loaded"
    /\ battery.current_level > 0
    /\ battery.current_level < 3500
    /\ battery.duration_hours = 4
    /\ battery.level = 0

====
